---------------------------- MODULE Spec2Model ----------------------------
(***************************************************************************)
(* Model of the HoagieClub meal backend:                                   *)
(*   - Scraper.get_info, get_html (backend/hoagiemeal/api/scraper.py)      *)
(*   - StudentApp._parse_xml, _remove_xml_namespace, _xml_to_dict,         *)
(*     _parse_ical, validate_xml, __init__, _refresh_token, _make_request  *)
(*                               (backend/hoagiemeal/api/student_app.py)   *)
(*   - Dining.get_locations, get_events, get_menu                          *)
(*                               (backend/hoagiemeal/api/dining.py)        *)
(*   - DiningLocationSerializer.get_amenities                              *)
(*                               (backend/hoagiemeal/serializers.py)       *)
(*   - prompt_user_choice, prompt_user_input, prompt_yes_no,               *)
(*     get_user_queries, filter_locations, display_locations,              *)
(*     execute_queries           (backend/hoagiemeal/tests/dining_api.py)  *)
(*   - EMPTY_MENU_SCHEMA and its copies in get_info, as objects of a heap  *)
(*                               (backend/hoagiemeal/api/scraper.py)       *)
(*                                                                         *)
(* A Python str is a sequence of characters, each character a one-letter   *)
(* TLA+ string.  Python values that a consumer can tell apart by type      *)
(* (None, str, list, dict) are tagged records, see PyStr, PyList, PyNone.  *)
(***************************************************************************)
EXTENDS Integers, Sequences, FiniteSets, TLC

VARIABLES
    soup,       \* the argument of Scraper.get_info
    pc,         \* position of get_info
    response,   \* the local `response` of get_info
    errors,     \* the try blocks whose handler ran logger.error, in order
    returned,   \* the value get_info returned, PyNone before it returns
    xml,        \* the argument of StudentApp._parse_xml: the document its text denotes
    document,   \* the local `root` of _parse_xml, None before ET.fromstring
    xpc,        \* position of _parse_xml
    decoded,    \* the value _parse_xml returned or the exception it raised
    xlog,       \* what _parse_xml passed to logger.error, in order
    parses,     \* the number of ET.fromstring calls _parse_xml has made
    amenities,  \* what DiningLocationSerializer.get_amenities made of `decoded`
    ical,       \* the argument of StudentApp._parse_ical: the calendar its text denotes
    ipc,        \* position of _parse_ical
    walk,       \* the components the loop over cal.walk() has yet to visit
    calendar_info,  \* the local `calendar_info` of _parse_ical
    events,     \* the local `events` of _parse_ical
    icalResult, \* the value _parse_ical returned or the exception it raised
    ACCESS_TOKEN,   \* self.ACCESS_TOKEN of each client object
    posts,      \* the token POSTs each client object has issued
    op,         \* the operation of the client that is running
    cpc,        \* position of that operation
    trace,      \* the calls that operation has made, in order
    locals,     \* the local variables of that operation
    outcome,    \* what the last finished operation returned or raised
    ops,        \* the number of operations started on the client
    heap,       \* the dicts and lists of the interpreter: address -> content
    records,    \* the addresses of the records get_info returned, in order
    expected,   \* per returned record: its value at return with its owner's writes
    mutations,  \* the number of writes callers made to returned records
    gpc,        \* position of the interactive test client
    queries,    \* the local `queries` of get_user_queries
    items,      \* the list the running loop of get_user_queries is building
    reads,      \* the lines the running prompt call has read and not accepted
    last,       \* the prompt call that returned last: function, arguments, lines, value
    answers     \* the answers get_user_queries got: keys answered yes and no, the
                \* entries for the key asked about last

scraperVars == <<soup, pc, response, errors, returned>>

xmlVars == <<xml, document, xpc, decoded, xlog, parses, amenities>>

icalVars == <<ical, ipc, walk, calendar_info, events, icalResult>>

clientVars == <<ACCESS_TOKEN, posts, op, cpc, trace, locals, outcome, ops>>

recordVars == <<heap, records, expected, mutations>>

promptVars == <<gpc, queries, items, reads, last, answers>>

vars == <<scraperVars, xmlVars, icalVars, clientVars, recordVars, promptVars>>

---------------------------------------------------------------------------
(* Python values.                                                          *)

PyNone == [type |-> "NoneType"]

PyStr(s) == [type |-> "str", chars |-> s]

PyList(l) == [type |-> "list", items |-> l]

PyDict(d) == [type |-> "dict", map |-> d]

---------------------------------------------------------------------------
(* A program that is not running.                                          *)

IdleScraper ==
    /\ soup = PyNone
    /\ pc = "idle"
    /\ response = PyNone
    /\ errors = <<>>
    /\ returned = PyNone

IdleXml ==
    /\ xml = PyNone
    /\ document = PyNone
    /\ xpc = "idle"
    /\ decoded = PyNone
    /\ xlog = <<>>
    /\ parses = 0
    /\ amenities = PyNone

IdleIcal ==
    /\ ical = PyNone
    /\ ipc = "idle"
    /\ walk = <<>>
    /\ calendar_info = PyNone
    /\ events = <<>>
    /\ icalResult = PyNone

IdleClient ==
    /\ ACCESS_TOKEN = PyNone
    /\ posts = 0
    /\ op = "idle"
    /\ cpc = "idle"
    /\ trace = <<>>
    /\ locals = PyNone
    /\ outcome = PyNone
    /\ ops = 0

IdleRecords ==
    /\ heap = <<>>
    /\ records = <<>>
    /\ expected = <<>>
    /\ mutations = 0

IdlePrompt ==
    /\ gpc = [at |-> "idle", key |-> "none", args |-> <<>>]
    /\ queries = PyNone
    /\ items = <<>>
    /\ reads = <<>>
    /\ last = PyNone
    /\ answers = [yes |-> {}, no |-> {}, key |-> "none", entered |-> <<>>]

---------------------------------------------------------------------------
(* Characters and the str methods the code calls.                          *)

LOWER == <<"a", "b", "c", "d", "e", "f", "g", "h", "i", "j", "k", "l", "m",
           "n", "o", "p", "q", "r", "s", "t", "u", "v", "w", "x", "y", "z">>

UPPER == <<"A", "B", "C", "D", "E", "F", "G", "H", "I", "J", "K", "L", "M",
           "N", "O", "P", "Q", "R", "S", "T", "U", "V", "W", "X", "Y", "Z">>

\* U+00BD VULGAR FRACTION ONE HALF as one character: str.isnumeric() accepts
\* it, str.isdigit() does not.
VulgarHalf == "1/2"

IsSpace(c) == c \in {" ", "\n", "\t"}

IsDigit(c) == c \in {"0", "1", "2", "3", "4", "5", "6", "7", "8", "9"}

IsNumericChar(c) == IsDigit(c) \/ c = VulgarHalf

ToUpper(c) ==
    IF \E i \in 1..Len(LOWER) : LOWER[i] = c
    THEN UPPER[CHOOSE i \in 1..Len(LOWER) : LOWER[i] = c]
    ELSE c

ToLower(c) ==
    IF \E i \in 1..Len(UPPER) : UPPER[i] = c
    THEN LOWER[CHOOSE i \in 1..Len(UPPER) : UPPER[i] = c]
    ELSE c

\* s[n:]
Drop(s, n) == SubSeq(s, n + 1, Len(s))

RECURSIVE LStrip(_)
LStrip(s) == IF s # <<>> /\ IsSpace(Head(s)) THEN LStrip(Tail(s)) ELSE s

RECURSIVE RStrip(_)
RStrip(s) ==
    IF s # <<>> /\ IsSpace(s[Len(s)]) THEN RStrip(SubSeq(s, 1, Len(s) - 1)) ELSE s

\* str.strip()
Strip(s) == RStrip(LStrip(s))

\* any(chr.isdigit() for chr in s)
AnyDigit(s) == \E i \in 1..Len(s) : IsDigit(s[i])

\* str.isnumeric(): non-empty and every character numeric
IsNumeric(s) == s # <<>> /\ \A i \in 1..Len(s) : IsNumericChar(s[i])

\* str.startswith(p)
StartsWith(s, p) == Len(s) >= Len(p) /\ SubSeq(s, 1, Len(p)) = p

\* str.split(","): one fragment more than there are commas
RECURSIVE Split(_, _)
Split(s, sep) ==
    IF \E i \in 1..Len(s) : s[i] = sep
    THEN LET i == CHOOSE j \in 1..Len(s) :
                      s[j] = sep /\ \A k \in 1..(j - 1) : s[k] # sep
         IN  <<SubSeq(s, 1, i - 1)>> \o Split(Drop(s, i), sep)
    ELSE <<s>>

\* str.capitalize(): first character upper-cased, the rest lower-cased
Capitalize(s) ==
    [i \in 1..Len(s) |-> IF i = 1 THEN ToUpper(s[i]) ELSE ToLower(s[i])]

Count(s, c) == Cardinality({i \in 1..Len(s) : s[i] = c})

---------------------------------------------------------------------------
(* Scraper: the selectors' labels and the empty schema.                    *)

LabelIngredientsInclude ==
    <<"I", "n", "g", "r", "e", "d", "i", "e", "n", "t", "s", " ",
      "i", "n", "c", "l", "u", "d", "e">>

LabelServingSize == <<"S", "e", "r", "v", "i", "n", "g", " ", "S", "i", "z", "e">>

LabelCalories == <<"C", "a", "l", "o", "r", "i", "e", "s">>

LabelCaloriesFromFat == LabelCalories \o <<" ", "f", "r", "o", "m", " ", "F", "a", "t">>

LabelTotalFat == <<"T", "o", "t", "a", "l", " ", "F", "a", "t">>

LabelTotCarb == <<"T", "o", "t", ".", " ", "C", "a", "r", "b", ".">>

LabelSatFat == <<"S", "a", "t", ".", " ", "F", "a", "t">>

LabelDietaryFiber == <<"D", "i", "e", "t", "a", "r", "y", " ", "F", "i", "b", "e", "r">>

LabelTransFat == <<"T", "r", "a", "n", "s", " ", "F", "a", "t">>

LabelSugars == <<"S", "u", "g", "a", "r", "s">>

LabelCholesterol == <<"C", "h", "o", "l", "e", "s", "t", "e", "r", "o", "l">>

LabelProtein == <<"P", "r", "o", "t", "e", "i", "n">>

LabelSodium == <<"S", "o", "d", "i", "u", "m">>

AmountDailyValue == ("Amount" :> PyStr(<<>>) @@ "Daily Value" :> PyStr(<<>>))

EMPTY_MENU_SCHEMA ==
    ( "Name" :> PyStr(<<>>)
   @@ "Serving Size" :> PyStr(<<>>)
   @@ "Calories" :> PyStr(<<>>)
   @@ "Calories from Fat" :> PyStr(<<>>)
   @@ "Ingredients" :> PyList(<<>>)
   @@ "Allergens" :> PyList(<<>>)
   @@ "Fat" :> ( "Total Fat" :> AmountDailyValue
              @@ "Saturated Fat" :> AmountDailyValue
              @@ "Trans Fat" :> AmountDailyValue )
   @@ "Cholesterol" :> AmountDailyValue
   @@ "Sodium" :> AmountDailyValue
   @@ "Carbohydrates" :> ( "Total Carbohydrates" :> AmountDailyValue
                        @@ "Dietary Fiber" :> AmountDailyValue
                        @@ "Sugar" :> AmountDailyValue )
   @@ "Protein" :> AmountDailyValue
   @@ "Vitamins" :> ( "Vitamin D" :> AmountDailyValue
                   @@ "Calcium" :> AmountDailyValue
                   @@ "Iron" :> AmountDailyValue
                   @@ "Potassium" :> AmountDailyValue ) )

\* response[k1] = v, response[k1][k2] = v, response[k1][k2][k3] = v
SetPath(resp, path, v) ==
    CASE Len(path) = 1 -> [resp EXCEPT ![path[1]] = v]
      [] Len(path) = 2 -> [resp EXCEPT ![path[1]][path[2]] = v]
      [] Len(path) = 3 -> [resp EXCEPT ![path[1]][path[2]][path[3]] = v]

GetPath(resp, path) ==
    CASE Len(path) = 1 -> resp[path[1]]
      [] Len(path) = 2 -> resp[path[1]][path[2]]
      [] Len(path) = 3 -> resp[path[1]][path[2]][path[3]]

\* The three assignments of the calories/size try block, in statement order:
\* the field written, the label whose length is sliced off, and whether the
\* value also passes through `x if x.isnumeric() else ""`.
CALORIES_SIZE_FIELDS ==
    << [path |-> <<"Serving Size">>, label |-> LabelServingSize, isnumeric |-> FALSE],
       [path |-> <<"Calories">>, label |-> LabelCalories, isnumeric |-> TRUE],
       [path |-> <<"Calories from Fat">>, label |-> LabelCaloriesFromFat, isnumeric |-> TRUE] >>

\* The same 18 assignments in the order of the schema's sections (fat,
\* cholesterol, sodium, carbohydrates, protein) instead of the page's.
NUTRITION_FIELDS_BY_SECTION ==
    << [path |-> <<"Fat", "Total Fat", "Amount">>, label |-> LabelTotalFat],
       [path |-> <<"Fat", "Total Fat", "Daily Value">>, label |-> <<>>],
       [path |-> <<"Fat", "Saturated Fat", "Amount">>, label |-> LabelSatFat],
       [path |-> <<"Fat", "Saturated Fat", "Daily Value">>, label |-> <<>>],
       [path |-> <<"Fat", "Trans Fat", "Amount">>, label |-> LabelTransFat],
       [path |-> <<"Fat", "Trans Fat", "Daily Value">>, label |-> <<>>],
       [path |-> <<"Cholesterol", "Amount">>, label |-> LabelCholesterol],
       [path |-> <<"Cholesterol", "Daily Value">>, label |-> <<>>],
       [path |-> <<"Sodium", "Amount">>, label |-> LabelSodium],
       [path |-> <<"Sodium", "Daily Value">>, label |-> <<>>],
       [path |-> <<"Carbohydrates", "Total Carbohydrates", "Amount">>, label |-> LabelTotCarb],
       [path |-> <<"Carbohydrates", "Total Carbohydrates", "Daily Value">>, label |-> <<>>],
       [path |-> <<"Carbohydrates", "Dietary Fiber", "Amount">>, label |-> LabelDietaryFiber],
       [path |-> <<"Carbohydrates", "Dietary Fiber", "Daily Value">>, label |-> <<>>],
       [path |-> <<"Carbohydrates", "Sugar", "Amount">>, label |-> LabelSugars],
       [path |-> <<"Carbohydrates", "Sugar", "Daily Value">>, label |-> <<>>],
       [path |-> <<"Protein", "Amount">>, label |-> LabelProtein],
       [path |-> <<"Protein", "Daily Value">>, label |-> <<>>] >>

\* The 18 assignments of the nutrition try block, in statement order; statement
\* i reads nutrition_elements[i - 1].  An empty label is the Daily Value form,
\* which slices nothing off.
NUTRITION_FIELDS ==
    << [path |-> <<"Fat", "Total Fat", "Amount">>, label |-> LabelTotalFat],
       [path |-> <<"Fat", "Total Fat", "Daily Value">>, label |-> <<>>],
       [path |-> <<"Carbohydrates", "Total Carbohydrates", "Amount">>, label |-> LabelTotCarb],
       [path |-> <<"Carbohydrates", "Total Carbohydrates", "Daily Value">>, label |-> <<>>],
       [path |-> <<"Fat", "Saturated Fat", "Amount">>, label |-> LabelSatFat],
       [path |-> <<"Fat", "Saturated Fat", "Daily Value">>, label |-> <<>>],
       [path |-> <<"Carbohydrates", "Dietary Fiber", "Amount">>, label |-> LabelDietaryFiber],
       [path |-> <<"Carbohydrates", "Dietary Fiber", "Daily Value">>, label |-> <<>>],
       [path |-> <<"Fat", "Trans Fat", "Amount">>, label |-> LabelTransFat],
       [path |-> <<"Fat", "Trans Fat", "Daily Value">>, label |-> <<>>],
       [path |-> <<"Carbohydrates", "Sugar", "Amount">>, label |-> LabelSugars],
       [path |-> <<"Carbohydrates", "Sugar", "Daily Value">>, label |-> <<>>],
       [path |-> <<"Cholesterol", "Amount">>, label |-> LabelCholesterol],
       [path |-> <<"Cholesterol", "Daily Value">>, label |-> <<>>],
       [path |-> <<"Protein", "Amount">>, label |-> LabelProtein],
       [path |-> <<"Protein", "Daily Value">>, label |-> <<>>],
       [path |-> <<"Sodium", "Amount">>, label |-> LabelSodium],
       [path |-> <<"Sodium", "Daily Value">>, label |-> <<>>] >>

\* The same four assignments in the order the schema lists the vitamins.
VITAMIN_FIELDS_IN_SCHEMA_ORDER ==
    << <<"Vitamins", "Vitamin D", "Daily Value">>,
       <<"Vitamins", "Calcium", "Daily Value">>,
       <<"Vitamins", "Iron", "Daily Value">>,
       <<"Vitamins", "Potassium", "Daily Value">> >>

\* The four assignments of the vitamins try block, in statement order;
\* statement i reads the <span> of elements[i - 1].
VITAMIN_FIELDS ==
    << <<"Vitamins", "Vitamin D", "Daily Value">>,
       <<"Vitamins", "Potassium", "Daily Value">>,
       <<"Vitamins", "Calcium", "Daily Value">>,
       <<"Vitamins", "Iron", "Daily Value">> >>

---------------------------------------------------------------------------
(* Scraper.get_info: the six try blocks.  A block yields the response as   *)
(* its statements left it and whether one of them raised: a statement that *)
(* raises ends the block, and the assignments made before it stay.         *)

Completed(resp) == [response |-> resp, raised |-> FALSE]

Raised(resp) == [response |-> resp, raised |-> TRUE]

\* `x or []` and `x or ""`
OrEmpty(x) == IF x = <<>> THEN <<>> ELSE x

\* text if any(chr.isdigit() for chr in text) else ""
KeepIfDigit(text) == IF AnyDigit(text) THEN text ELSE <<>>

\* text if text.isnumeric() else ""
KeepIfNumeric(text) == IF IsNumeric(text) THEN text ELSE <<>>

\* A slice that removes the label only from a text that begins with it.
LabelValueIfPresent(text, label) ==
    IF StartsWith(Strip(text), label)
    THEN Strip(Drop(Strip(text), Len(label)))
    ELSE Strip(text)

\* element.text.strip()[len(label):].strip()
LabelValue(text, label) == Strip(Drop(Strip(text), Len(label)))

NonBlank(item) == Strip(item) # <<>>

\* A comprehension that skips the blank fragments.
StripCapitalizeNonBlank(parsed) ==
    [i \in 1..Len(SelectSeq(parsed, NonBlank)) |->
        PyStr(Capitalize(Strip(SelectSeq(parsed, NonBlank)[i])))]

\* [item.strip().capitalize() for item in parsed]
StripCapitalizeAll(parsed) ==
    [i \in 1..Len(parsed) |-> PyStr(Capitalize(Strip(parsed[i])))]

IngredientsValue(text) == StripCapitalizeAll(Split(text, ","))

AllergensValue(text) ==
    LET allergens_text == Strip(text)
        allergen_text_truncated ==
            IF StartsWith(allergens_text, LabelIngredientsInclude)
            THEN Drop(allergens_text, Len(LabelIngredientsInclude))
            ELSE allergens_text
    IN  StripCapitalizeAll(Split(allergen_text_truncated, ","))

\* The digit test alone, without the isnumeric test.
CaloriesSizeValueDigitOnly(i, text) ==
    KeepIfDigit(LabelValue(text, CALORIES_SIZE_FIELDS[i].label))

\* The isnumeric test on all three values, Serving Size too.
CaloriesSizeValueAllNumeric(i, text) ==
    KeepIfDigit(KeepIfNumeric(LabelValue(text, CALORIES_SIZE_FIELDS[i].label)))

CaloriesSizeValue(i, text) ==
    LET f == CALORIES_SIZE_FIELDS[i]
        t == LabelValue(text, f.label)
    IN  KeepIfDigit(IF f.isnumeric THEN KeepIfNumeric(t) ELSE t)

NutritionValue(i, text) == KeepIfDigit(LabelValue(text, NUTRITION_FIELDS[i].label))

VitaminValue(text) == KeepIfDigit(Strip(text))

\* element.find("span"): the first <span> below the element, or None
FindSpan(li) == IF li = <<>> THEN PyNone ELSE PyStr(li[1])

IngredientsTry(resp, s) ==
    IF s.ingredients = <<>>
    THEN Raised(resp)
    ELSE Completed([resp EXCEPT !["Ingredients"] =
                        PyList(OrEmpty(IngredientsValue(s.ingredients[1])))])

AllergensTry(resp, s) ==
    IF s.allergens = <<>>
    THEN Raised(resp)
    ELSE Completed([resp EXCEPT !["Allergens"] =
                        PyList(OrEmpty(AllergensValue(s.allergens[1])))])

\* A name block that stores None for a page without a name.
NameTryNone(resp, s) ==
    IF s.h2 = <<>>
    THEN Completed([resp EXCEPT !["Name"] = PyNone])
    ELSE Completed([resp EXCEPT !["Name"] = PyStr(OrEmpty(Strip(s.h2[1])))])

NameTry(resp, s) ==
    IF s.h2 = <<>>
    THEN Raised(resp)
    ELSE Completed([resp EXCEPT !["Name"] = PyStr(OrEmpty(Strip(s.h2[1])))])

RECURSIVE CaloriesSizeFrom(_, _, _)
CaloriesSizeFrom(resp, elements, i) ==
    IF i > Len(CALORIES_SIZE_FIELDS) THEN Completed(resp)
    ELSE IF i > Len(elements) THEN Raised(resp)
    ELSE CaloriesSizeFrom(
             SetPath(resp, CALORIES_SIZE_FIELDS[i].path,
                     PyStr(CaloriesSizeValue(i, elements[i]))),
             elements, i + 1)

\* A try block that writes its fields only when all of its statements ran.
CaloriesSizeTryAllOrNothing(resp, s) ==
    IF CaloriesSizeFrom(resp, s.facts2, 1).raised
    THEN Raised(resp)
    ELSE CaloriesSizeFrom(resp, s.facts2, 1)

CaloriesSizeTry(resp, s) == CaloriesSizeFrom(resp, s.facts2, 1)

RECURSIVE NutritionFrom(_, _, _)
NutritionFrom(resp, nutrition_elements, i) ==
    IF i > Len(NUTRITION_FIELDS) THEN Completed(resp)
    ELSE IF i > Len(nutrition_elements) THEN Raised(resp)
    ELSE NutritionFrom(
             SetPath(resp, NUTRITION_FIELDS[i].path,
                     PyStr(NutritionValue(i, nutrition_elements[i]))),
             nutrition_elements, i + 1)

NutritionTry(resp, s) == NutritionFrom(resp, s.facts4, 1)

RECURSIVE VitaminsFrom(_, _, _)
VitaminsFrom(resp, elements, i) ==
    IF i > Len(VITAMIN_FIELDS) THEN Completed(resp)
    ELSE IF i > Len(elements) THEN Raised(resp)
    ELSE IF FindSpan(elements[i]) = PyNone THEN Raised(resp)
    ELSE VitaminsFrom(
             SetPath(resp, VITAMIN_FIELDS[i],
                     PyStr(VitaminValue(FindSpan(elements[i]).chars))),
             elements, i + 1)

VitaminsTry(resp, s) == VitaminsFrom(resp, s.li, 1)

\* The try blocks in program order.
BLOCKS == <<"ingredients", "allergens", "name", "calories_size", "nutrition", "vitamins">>

Try(block, resp, s) ==
    CASE block = "ingredients" -> IngredientsTry(resp, s)
      [] block = "allergens" -> AllergensTry(resp, s)
      [] block = "name" -> NameTry(resp, s)
      [] block = "calories_size" -> CaloriesSizeTry(resp, s)
      [] block = "nutrition" -> NutritionTry(resp, s)
      [] block = "vitamins" -> VitaminsTry(resp, s)

BlockIndex(block) == CHOOSE i \in 1..Len(BLOCKS) : BLOCKS[i] = block

\* A handler that lets the exception go on to the outer try statement.
AfterTryReraising(block, raised) ==
    IF raised THEN "outer_except"
    ELSE IF BlockIndex(block) < Len(BLOCKS) THEN BLOCKS[BlockIndex(block) + 1]
    ELSE "return"

\* Where control goes after a try statement: every inner handler is
\* `except Exception`, logs and falls through to the next statement.
AfterTry(block, raised) ==
    IF BlockIndex(block) < Len(BLOCKS) THEN BLOCKS[BlockIndex(block) + 1] ELSE "return"

\* The element set each try block reads.
ElementsOf(block) ==
    CASE block = "ingredients" -> "ingredients"
      [] block = "allergens" -> "allergens"
      [] block = "name" -> "h2"
      [] block = "calories_size" -> "facts2"
      [] block = "nutrition" -> "facts4"
      [] block = "vitamins" -> "li"

\* isinstance(soup, BeautifulSoup)
IsSoup(s) == s.type = "BeautifulSoup"

---------------------------------------------------------------------------
(* Scraper.get_info: the steps.                                            *)

\* Lines 171-174: no soup, or not a BeautifulSoup object.
NoSoup ==
    /\ pc = "call"
    /\ ~IsSoup(soup)
    /\ response' = EMPTY_MENU_SCHEMA
    /\ returned' = EMPTY_MENU_SCHEMA
    /\ errors' = Append(errors, "soup")
    /\ pc' = "returned"
    /\ UNCHANGED <<soup, xmlVars, icalVars, clientVars, recordVars, promptVars>>

\* Line 176: response = deepcopy(self.EMPTY_MENU_SCHEMA)
Begin ==
    /\ pc = "call"
    /\ IsSoup(soup)
    /\ response' = EMPTY_MENU_SCHEMA
    /\ pc' = BLOCKS[1]
    /\ UNCHANGED <<soup, errors, returned, xmlVars, icalVars, clientVars, recordVars, promptVars>>

\* One try statement: its body up to the first raise, then its handler.
RunTry(block) ==
    /\ pc = block
    /\ LET r == Try(block, response, soup)
       IN  /\ response' = r.response
           /\ errors' = IF r.raised THEN Append(errors, block) ELSE errors
           /\ pc' = AfterTry(block, r.raised)
    /\ UNCHANGED <<soup, returned, xmlVars, icalVars, clientVars, recordVars, promptVars>>

TryIngredients == RunTry("ingredients")

TryAllergens == RunTry("allergens")

TryName == RunTry("name")

TryCaloriesSize == RunTry("calories_size")

TryNutrition == RunTry("nutrition")

TryVitamins == RunTry("vitamins")

\* Line 369, and the outer handler of lines 370-373, which returns a fresh
\* empty schema when an exception leaves one of the inner try statements.
Return ==
    /\ pc \in {"return", "outer_except"}
    /\ returned' = IF pc = "outer_except" THEN EMPTY_MENU_SCHEMA ELSE response
    /\ errors' = IF pc = "outer_except" THEN Append(errors, "outer") ELSE errors
    /\ pc' = "returned"
    /\ UNCHANGED <<soup, response, xmlVars, icalVars, clientVars, recordVars, promptVars>>

ScraperNext ==
    \/ NoSoup
    \/ Begin
    \/ TryIngredients
    \/ TryAllergens
    \/ TryName
    \/ TryCaloriesSize
    \/ TryNutrition
    \/ TryVitamins
    \/ Return

---------------------------------------------------------------------------
(* The label pages get_info is run on.  An element is modelled by its      *)
(* text; an <li> by the texts of the <span>s below it.                     *)

\* Surplus elements a find_all result may hold after the ones get_info reads.
MaxExtraElements == 1

DIGITS == <<"0", "1", "2", "3", "4", "5", "6", "7", "8", "9">>

\* str(n) for 0 <= n <= 99
Digits(n) ==
    IF n < 10 THEN <<DIGITS[n + 1]>>
    ELSE <<DIGITS[(n \div 10) + 1], DIGITS[(n % 10) + 1]>>

TextWaterSalt == <<"W", "a", "t", "e", "r", ",", " ", "s", "a", "l", "t">>

TextOatsButter ==
    <<" ", "r", "o", "l", "l", "e", "d", " ", "O", "A", "T", "S", " ", ",", ",",
      "b", "u", "t", "t", "e", "r", "\n">>

TextEgg == <<"e", "g", "g">>

TextDecoy == <<"d", "e", "c", "o", "y", ",", " ", "9", "9">>

TextMilkSoy == <<" ", "m", "i", "l", "k", ",", " ", "S", "O", "Y">>

TextDash == <<" ", "-", " ">>

TextNA == <<"n", "/", "a">>

IngredientTexts == {TextWaterSalt, TextOatsButter, TextEgg, <<>>}

AllergenTexts ==
    { LabelIngredientsInclude \o TextMilkSoy,
      <<" ", "\n">> \o LabelIngredientsInclude \o TextMilkSoy \o <<" ">>,
      TextEgg \o <<",">> \o LabelIngredientsInclude \o TextMilkSoy,
      Tail(LabelIngredientsInclude) \o TextMilkSoy,
      LabelIngredientsInclude,
      TextMilkSoy,
      <<>> }

TextOatmeal == <<" ", "O", "a", "t", "m", "e", "a", "l", " ">>

NameTexts ==
    { TextOatmeal,
      <<"E", "g", "g", "s", " ", "2", " ", "w", "a", "y", "s">>,
      <<" ", " ">>,
      <<>> }

\* The texts tried at each position of the calories/size element set; the
\* first of each is the one of the canonical page.
CaloriesSizeTexts ==
    << << LabelServingSize \o <<" ", "1", " ", "c", "u", "p">>,
          LabelServingSize \o <<" ", "o", "n", "e", " ", "c", "u", "p">>,
          <<" ", " ">> \o LabelServingSize \o <<" ", " ", "8", " ", "o", "z", "\n">>,
          <<"8", " ", "o", "z">>,
          <<"P", "o", "r", "t", "i", "o", "n", " ", "s", "i", "z", "e", ":", " ", "2", " ", "c", "u", "p", "s">> >>,
       << LabelCalories \o <<" ", "1", "2", "0">>,
          LabelCalories \o <<" ", "1", "2", ".", "5">>,
          LabelCalories \o <<" ", "1", "2", "0", " ", "k", "c", "a", "l">>,
          LabelCalories \o <<" ", "n", "o", "n", "e">>,
          LabelCalories \o <<" ", VulgarHalf>>,
          LabelCalories \o <<" ", "1", VulgarHalf>>,
          LabelCalories >>,
       << LabelCaloriesFromFat \o <<" ", "4", "5">>,
          LabelCaloriesFromFat \o <<" ", "4", " ", "5">>,
          LabelCaloriesFromFat \o <<" ", "4", "5", "g">>,
          LabelCaloriesFromFat \o <<" ">> \o TextNA >> >>

\* The text of the i-th nutrition element of the canonical page: every
\* element carries its own number, so no two elements yield the same value.
NutritionText(i) ==
    IF i > Len(NUTRITION_FIELDS) THEN <<"x">> \o Digits(i)
    ELSE IF NUTRITION_FIELDS[i].label # <<>>
         THEN NUTRITION_FIELDS[i].label \o <<" ">> \o Digits(i) \o <<"g">>
         ELSE Digits(i) \o <<"%">>

\* Other texts tried at position i: padded, without a digit, without a
\* label, with a word before the label.
NutritionVariants(i) ==
    { <<"\n", " ">> \o NutritionText(i) \o <<" ">>,
      NUTRITION_FIELDS[i].label \o TextDash,
      Digits(i) \o <<"g">>,
      <<"A", "b", "o", "u", "t", " ">> \o NutritionText(i) }

\* The i-th <li> of the canonical page: one <span>.
VitaminLi(i) == << Digits(10 * i) \o <<"%">> >>

\* Other <li> tried at position i: no <span>, a <span> without a digit, a
\* padded <span>, two <span>s.
VitaminLiVariants(i) ==
    { <<>>,
      <<TextDash>>,
      << <<" ">> \o VitaminLi(i)[1] \o <<"\n">> >>,
      <<VitaminLi(i)[1], Digits(i) \o <<"%">> >> }

\* All ways to cut a list short.
Prefixes(l) == {SubSeq(l, 1, n) : n \in 0..Len(l)}

\* A first element followed by up to MaxExtraElements surplus ones.
WithExtras(first, extra) ==
    {<<first>> \o [i \in 1..n |-> extra] : n \in 0..MaxExtraElements}

CanonicalFacts2 == [i \in 1..Len(CALORIES_SIZE_FIELDS) |-> CaloriesSizeTexts[i][1]]

CanonicalFacts4 == [i \in 1..Len(NUTRITION_FIELDS) |-> NutritionText(i)]

CanonicalLi == [i \in 1..Len(VITAMIN_FIELDS) |-> VitaminLi(i)]

RichIngredients == {<<>>} \cup UNION {WithExtras(t, TextDecoy) : t \in IngredientTexts}

RichAllergens == {<<>>} \cup UNION {WithExtras(t, TextDecoy) : t \in AllergenTexts}

RichH2 == {<<>>} \cup UNION {WithExtras(t, TextDecoy) : t \in NameTexts}

RichFacts2 ==
    UNION { UNION { Prefixes([CanonicalFacts2 EXCEPT ![i] = CaloriesSizeTexts[i][v]]
                             \o [k \in 1..MaxExtraElements |-> TextDecoy])
                    : v \in 1..Len(CaloriesSizeTexts[i]) }
            : i \in 1..Len(CALORIES_SIZE_FIELDS) }

RichFacts4 ==
    Prefixes([i \in 1..(Len(NUTRITION_FIELDS) + MaxExtraElements) |-> NutritionText(i)])
    \cup UNION { {[CanonicalFacts4 EXCEPT ![i] = t] : t \in NutritionVariants(i)}
                 : i \in 1..Len(NUTRITION_FIELDS) }

RichLi ==
    Prefixes([i \in 1..(Len(VITAMIN_FIELDS) + MaxExtraElements) |-> VitaminLi(i)])
    \cup UNION { {[CanonicalLi EXCEPT ![i] = l] : l \in VitaminLiVariants(i)}
                 : i \in 1..Len(VITAMIN_FIELDS) }

\* Pages on which every group is missing, cut short or malformed, or as on
\* the canonical page ...
CoarsePages ==
    [ type : {"BeautifulSoup"},
      ingredients : {<<>>, <<TextWaterSalt>>},
      allergens : {<<>>, <<LabelIngredientsInclude \o TextMilkSoy>>},
      h2 : {<<>>, <<TextOatmeal>>},
      facts2 : {<<>>, SubSeq(CanonicalFacts2, 1, 1), CanonicalFacts2},
      facts4 : {<<>>, SubSeq(CanonicalFacts4, 1, Len(CanonicalFacts4) \div 2),
                CanonicalFacts4},
      li : {<<>>, [CanonicalLi EXCEPT ![2] = <<>>], CanonicalLi} ]

\* All variants of the element set a try block reads.
RichElements(block) ==
    CASE block = "ingredients" -> RichIngredients
      [] block = "allergens" -> RichAllergens
      [] block = "name" -> RichH2
      [] block = "calories_size" -> RichFacts2
      [] block = "nutrition" -> RichFacts4
      [] block = "vitamins" -> RichLi

\* What a caller passes as `soup`: None, an object that is no BeautifulSoup,
\* or a parsed page: a coarse page on which one group ranges over all its
\* variants.
InitScraper ==
    /\ \/ soup \in {PyNone, PyStr(TextEgg)}
       \/ \E p \in CoarsePages, i \in 1..Len(BLOCKS) :
             \E r \in RichElements(BLOCKS[i]) :
                 soup = [p EXCEPT ![ElementsOf(BLOCKS[i])] = r]
    /\ pc = "call"
    /\ response = PyNone
    /\ errors = <<>>
    /\ returned = PyNone
    /\ IdleXml
    /\ IdleIcal
    /\ IdleClient
    /\ IdleRecords
    /\ IdlePrompt

SpecScraper == InitScraper /\ [][ScraperNext]_vars

---------------------------------------------------------------------------
(* Properties of Scraper.get_info.                                         *)

Returned == pc = "returned"

ReturnedFromPage == pc = "returned" /\ IsSoup(soup)

\* The fields each try block assigns, in statement order.
FieldsOf(block) ==
    CASE block = "ingredients" -> << <<"Ingredients">> >>
      [] block = "allergens" -> << <<"Allergens">> >>
      [] block = "name" -> << <<"Name">> >>
      [] block = "calories_size" ->
            << <<"Serving Size">>, <<"Calories">>, <<"Calories from Fat">> >>
      [] block = "nutrition" ->
            << <<"Fat", "Total Fat", "Amount">>,
               <<"Fat", "Total Fat", "Daily Value">>,
               <<"Carbohydrates", "Total Carbohydrates", "Amount">>,
               <<"Carbohydrates", "Total Carbohydrates", "Daily Value">>,
               <<"Fat", "Saturated Fat", "Amount">>,
               <<"Fat", "Saturated Fat", "Daily Value">>,
               <<"Carbohydrates", "Dietary Fiber", "Amount">>,
               <<"Carbohydrates", "Dietary Fiber", "Daily Value">>,
               <<"Fat", "Trans Fat", "Amount">>,
               <<"Fat", "Trans Fat", "Daily Value">>,
               <<"Carbohydrates", "Sugar", "Amount">>,
               <<"Carbohydrates", "Sugar", "Daily Value">>,
               <<"Cholesterol", "Amount">>,
               <<"Cholesterol", "Daily Value">>,
               <<"Protein", "Amount">>,
               <<"Protein", "Daily Value">>,
               <<"Sodium", "Amount">>,
               <<"Sodium", "Daily Value">> >>
      [] block = "vitamins" ->
            << <<"Vitamins", "Vitamin D", "Daily Value">>,
               <<"Vitamins", "Potassium", "Daily Value">>,
               <<"Vitamins", "Calcium", "Daily Value">>,
               <<"Vitamins", "Iron", "Daily Value">> >>

GroupFields(block, resp) ==
    [i \in 1..Len(FieldsOf(block)) |-> GetPath(resp, FieldsOf(block)[i])]

EmptyPage ==
    [type |-> "BeautifulSoup", ingredients |-> <<>>, allergens |-> <<>>,
     h2 |-> <<>>, facts2 |-> <<>>, facts4 |-> <<>>, li |-> <<>>]

CanonicalPage ==
    [type |-> "BeautifulSoup", ingredients |-> <<TextWaterSalt>>,
     allergens |-> <<LabelIngredientsInclude \o TextMilkSoy>>,
     h2 |-> <<TextOatmeal>>, facts2 |-> CanonicalFacts2,
     facts4 |-> CanonicalFacts4, li |-> CanonicalLi]

\* Page `base` carrying the elements that `block` reads on page s.
WithGroupOf(base, block, s) ==
    [base EXCEPT ![ElementsOf(block)] = s[ElementsOf(block)]]

\* C1: in the returned record the fields of each group are those its try
\* block yields on its own: the same as on the page where every other
\* group's elements are missing, and the same as on the page where every
\* other group is as on the canonical page, whichever other blocks raised.
C1_GroupIsolation ==
    ReturnedFromPage =>
        \A i \in 1..Len(BLOCKS) :
            \A alone \in {Try(BLOCKS[i], EMPTY_MENU_SCHEMA,
                              WithGroupOf(EmptyPage, BLOCKS[i], soup)).response},
               among \in {Try(BLOCKS[i], EMPTY_MENU_SCHEMA,
                              WithGroupOf(CanonicalPage, BLOCKS[i], soup)).response} :
                /\ GroupFields(BLOCKS[i], returned) = GroupFields(BLOCKS[i], alone)
                /\ GroupFields(BLOCKS[i], returned) = GroupFields(BLOCKS[i], among)

\* A page without the ingredients class: Ingredients = [] and every other
\* group populated as on the canonical page.
C1_Witness ==
    /\ ReturnedFromPage
    /\ soup.ingredients = <<>>
    /\ errors = <<"ingredients">>
    /\ returned["Ingredients"] = PyList(<<>>)
    /\ \A i \in 2..Len(BLOCKS) :
          /\ GroupFields(BLOCKS[i], returned)
                = GroupFields(BLOCKS[i], Try(BLOCKS[i], EMPTY_MENU_SCHEMA, CanonicalPage).response)
          /\ GroupFields(BLOCKS[i], returned) # GroupFields(BLOCKS[i], EMPTY_MENU_SCHEMA)

\* The statement of `block` that raises on page s, counted from 1, or one
\* more than the block has statements when none does: the first statement
\* whose element is missing (IndexError) or, for the vitamins, whose <li> has
\* no <span> (AttributeError on None).
FailingStatement(block, s) ==
    LET elements == s[ElementsOf(block)]
        n == IF block \in {"ingredients", "allergens", "name"} THEN 1
             ELSE Len(FieldsOf(block))
        Fails(i) == \/ i > Len(elements)
                    \/ block = "vitamins" /\ elements[i] = <<>>
    IN  IF \E i \in 1..n : Fails(i)
        THEN CHOOSE i \in 1..n : Fails(i) /\ \A j \in 1..(i - 1) : ~Fails(j)
        ELSE n + 1

BlockFails(block, s) == FailingStatement(block, s) <= Len(FieldsOf(block))

\* C2 as claimed: a group that fails leaves every one of its fields at the
\* empty default.
C2_FailedGroupAllDefault ==
    ReturnedFromPage =>
        \A i \in 1..Len(BLOCKS) :
            BlockFails(BLOCKS[i], soup) =>
                GroupFields(BLOCKS[i], returned) = GroupFields(BLOCKS[i], EMPTY_MENU_SCHEMA)

\* What statement j of `block` assigns on page s when it gets that far.
ExtractedValue(block, j, s) ==
    CASE block = "ingredients" -> PyList(IngredientsValue(s.ingredients[1]))
      [] block = "allergens" -> PyList(AllergensValue(s.allergens[1]))
      [] block = "name" -> PyStr(Strip(s.h2[1]))
      [] block = "calories_size" -> PyStr(CaloriesSizeValue(j, s.facts2[j]))
      [] block = "nutrition" -> PyStr(NutritionValue(j, s.facts4[j]))
      [] block = "vitamins" -> PyStr(VitaminValue(s.li[j][1]))

\* C2 amended: a try block logs an error exactly when one of its statements
\* raises; the fields assigned by the statements before the failing one keep
\* the values extracted for them (they are not reset), and the fields of the
\* failing statement and of every later one are at the empty default.
C2_FailedGroupKeepsPrefix ==
    ReturnedFromPage =>
        \A i \in 1..Len(BLOCKS) :
            \A k \in {FailingStatement(BLOCKS[i], soup)} :
                /\ (\E e \in 1..Len(errors) : errors[e] = BLOCKS[i])
                      <=> k <= Len(FieldsOf(BLOCKS[i]))
                /\ \A j \in 1..Len(FieldsOf(BLOCKS[i])) :
                      GetPath(returned, FieldsOf(BLOCKS[i])[j]) =
                          IF j < k
                          THEN ExtractedValue(BLOCKS[i], j, soup)
                          ELSE GetPath(EMPTY_MENU_SCHEMA, FieldsOf(BLOCKS[i])[j])

\* The calories/size set holds two elements: Serving Size and Calories are
\* kept, Calories from Fat is empty, and the block logged its error.
C2_Witness ==
    /\ ReturnedFromPage
    /\ Len(soup.facts2) = 2
    /\ \E e \in 1..Len(errors) : errors[e] = "calories_size"
    /\ returned["Serving Size"].chars # <<>>
    /\ returned["Calories"].chars # <<>>
    /\ returned["Calories from Fat"] = PyStr(<<>>)

\* A leaf of the schema is a Python value; an inner mapping is a dictionary
\* keyed by field names.
IsLeaf(v) == "type" \in DOMAIN v

IsStr(v) == DOMAIN v = {"type", "chars"} /\ v.type = "str"

IsListOfStr(v) ==
    /\ DOMAIN v = {"type", "items"}
    /\ v.type = "list"
    /\ \A i \in 1..Len(v.items) : IsStr(v.items[i])

\* v has the keys of schema e at every level, a str where e has a str and a
\* list of str where e has a list.
RECURSIVE SameStructure(_, _)
SameStructure(v, e) ==
    IF IsLeaf(e)
    THEN IF e.type = "str" THEN IsStr(v) ELSE IsListOfStr(v)
    ELSE /\ ~IsLeaf(v)
         /\ DOMAIN v = DOMAIN e
         /\ \A k \in DOMAIN e : SameStructure(v[k], e[k])

\* C3: get_info always gets to its return (no exception leaves it: control is
\* always at a statement of get_info and never in the outer handler),
\* the record it returns has exactly the keys of EMPTY_MENU_SCHEMA with a str
\* or a list of str, never None, at every leaf, and for None or an object
\* that is no BeautifulSoup it is the empty schema itself.
C3_ReturnsSchema ==
    /\ pc \in {"call", "return", "returned"} \cup {BLOCKS[i] : i \in 1..Len(BLOCKS)}
    /\ \A e \in 1..Len(errors) : errors[e] # "outer"
    /\ Returned => SameStructure(returned, EMPTY_MENU_SCHEMA)
    /\ (Returned /\ ~IsSoup(soup)) => returned = EMPTY_MENU_SCHEMA

\* get_info has returned the empty schema for an object that is no
\* BeautifulSoup.
C3_Witness ==
    /\ Returned
    /\ soup = PyStr(TextEgg)
    /\ returned = EMPTY_MENU_SCHEMA
    /\ errors = <<"soup">>

\* The value of the element at position i of the calories/size set: its
\* trimmed text without its first len(label) characters, trimmed again.
SizeValueAt(i, label) == Strip(Drop(Strip(soup.facts2[i]), Len(label)))

\* C4 as claimed: Calories and Calories from Fat are kept whenever the value
\* contains a digit and are empty only when it contains none.
C4_CaloriesKeptIffDigit ==
    ReturnedFromPage =>
        /\ Len(soup.facts2) >= 2 =>
              returned["Calories"] =
                  PyStr(IF AnyDigit(SizeValueAt(2, LabelCalories))
                        THEN SizeValueAt(2, LabelCalories) ELSE <<>>)
        /\ Len(soup.facts2) >= 3 =>
              returned["Calories from Fat"] =
                  PyStr(IF AnyDigit(SizeValueAt(3, LabelCaloriesFromFat))
                        THEN SizeValueAt(3, LabelCaloriesFromFat) ELSE <<>>)

\* Every character of v is numeric, v is not empty, and one is a digit.
NumericWithDigit(v) ==
    /\ v # <<>>
    /\ \A i \in 1..Len(v) : IsNumericChar(v[i])
    /\ \E i \in 1..Len(v) : IsDigit(v[i])

\* C4 amended: Calories and Calories from Fat are kept exactly when the value
\* is not empty, consists of numeric characters only (str.isnumeric) and
\* holds at least one digit; every other value is reset to the empty string,
\* also one that holds a digit beside a character that is not numeric.
C4_CaloriesKeptIffNumeric ==
    ReturnedFromPage =>
        /\ Len(soup.facts2) >= 2 =>
              returned["Calories"] =
                  PyStr(IF NumericWithDigit(SizeValueAt(2, LabelCalories))
                        THEN SizeValueAt(2, LabelCalories) ELSE <<>>)
        /\ Len(soup.facts2) >= 3 =>
              returned["Calories from Fat"] =
                  PyStr(IF NumericWithDigit(SizeValueAt(3, LabelCaloriesFromFat))
                        THEN SizeValueAt(3, LabelCaloriesFromFat) ELSE <<>>)

\* A Calories value with a digit and a character that is not numeric has
\* been reset, next to a kept Calories from Fat.
C4_Witness ==
    /\ ReturnedFromPage
    /\ Len(soup.facts2) >= 3
    /\ AnyDigit(SizeValueAt(2, LabelCalories))
    /\ ~IsNumeric(SizeValueAt(2, LabelCalories))
    /\ returned["Calories"] = PyStr(<<>>)
    /\ returned["Calories from Fat"] = PyStr(<<"4", "5">>)

\* C5: Serving Size is the value of the first calories/size element when that
\* value contains a digit, and the empty string when it contains none.
C5_ServingSizeKeptIffDigit ==
    (ReturnedFromPage /\ Len(soup.facts2) >= 1) =>
        returned["Serving Size"] =
            PyStr(IF \E i \in 1..Len(SizeValueAt(1, LabelServingSize)) :
                        IsDigit(SizeValueAt(1, LabelServingSize)[i])
                  THEN SizeValueAt(1, LabelServingSize)
                  ELSE <<>>)

\* A serving size with a digit and letters has been stored verbatim.
C5_Witness ==
    /\ ReturnedFromPage
    /\ soup.facts2 # <<>>
    /\ soup.facts2[1] = CaloriesSizeTexts[1][1]
    /\ returned["Serving Size"] = PyStr(<<"1", " ", "c", "u", "p">>)

\* The nutrients in the order C6 gives them, index pair 0/1 first, with the
\* label sliced off each Amount entry.
ClaimedNutritionOrder ==
    << [path |-> <<"Fat", "Total Fat">>, label |-> LabelTotalFat],
       [path |-> <<"Carbohydrates", "Total Carbohydrates">>, label |-> LabelTotCarb],
       [path |-> <<"Fat", "Saturated Fat">>, label |-> LabelSatFat],
       [path |-> <<"Carbohydrates", "Dietary Fiber">>, label |-> LabelDietaryFiber],
       [path |-> <<"Fat", "Trans Fat">>, label |-> LabelTransFat],
       [path |-> <<"Carbohydrates", "Sugar">>, label |-> LabelSugars],
       [path |-> <<"Cholesterol">>, label |-> LabelCholesterol],
       [path |-> <<"Protein">>, label |-> LabelProtein],
       [path |-> <<"Sodium">>, label |-> LabelSodium] >>

DigitOrEmpty(text) == IF \E i \in 1..Len(text) : IsDigit(text[i]) THEN text ELSE <<>>

\* C6: the nutrition field of index n (0..17) holds the value of element n of
\* the nutrition set and of no other: Amount on the even indices, with the
\* label sliced off, Daily Value on the odd ones, with nothing sliced off; a
\* field whose element the set does not hold is empty.  (A value without a
\* digit is stored as the empty string.)
C6_NutritionByFixedIndex ==
    ReturnedFromPage =>
        \A n \in 0..(2 * Len(ClaimedNutritionOrder) - 1) :
            LET nutrient == ClaimedNutritionOrder[(n \div 2) + 1]
                field == nutrient.path \o <<IF n % 2 = 0 THEN "Amount" ELSE "Daily Value">>
                text == Strip(soup.facts4[n + 1])
            IN  GetPath(returned, field) =
                    IF n < Len(soup.facts4)
                    THEN PyStr(DigitOrEmpty(IF n % 2 = 0
                                            THEN Strip(Drop(text, Len(nutrient.label)))
                                            ELSE text))
                    ELSE PyStr(<<>>)

\* All 18 elements present, each with its own number: element 0 went to
\* Total Fat Amount, 5 to Saturated Fat Daily Value, 12 to Cholesterol
\* Amount and 17 to Sodium Daily Value.
C6_Witness ==
    /\ ReturnedFromPage
    /\ Len(soup.facts4) >= Len(NUTRITION_FIELDS)
    /\ returned["Fat"]["Total Fat"]["Amount"] = PyStr(<<"1", "g">>)
    /\ returned["Fat"]["Saturated Fat"]["Daily Value"] = PyStr(<<"6", "%">>)
    /\ returned["Cholesterol"]["Amount"] = PyStr(<<"1", "3", "g">>)
    /\ returned["Sodium"]["Daily Value"] = PyStr(<<"1", "8", "%">>)

ClaimedVitaminOrder == <<"Vitamin D", "Potassium", "Calcium", "Iron">>

\* C7: in every returned record the four vitamin Amount fields are empty, and
\* the Daily Value of the i-th of Vitamin D, Potassium, Calcium, Iron is the
\* trimmed text of the first <span> of the i-th <li> (the empty string when
\* that text has no digit), as long as the first i <li> all exist and hold a
\* <span>; otherwise it is empty.
C7_VitaminsFromFirstFourLi ==
    /\ Returned =>
          \A v \in DOMAIN returned["Vitamins"] :
              returned["Vitamins"][v]["Amount"] = PyStr(<<>>)
    /\ ReturnedFromPage =>
          /\ DOMAIN returned["Vitamins"] = {ClaimedVitaminOrder[i] : i \in 1..4}
          /\ \A i \in 1..4 :
                returned["Vitamins"][ClaimedVitaminOrder[i]]["Daily Value"] =
                    IF \A j \in 1..i : j <= Len(soup.li) /\ soup.li[j] # <<>>
                    THEN PyStr(DigitOrEmpty(Strip(soup.li[i][1])))
                    ELSE PyStr(<<>>)

\* Four <li> with distinct percentages, the second with two <span>s.
C7_Witness ==
    /\ ReturnedFromPage
    /\ Len(soup.li) >= 4
    /\ Len(soup.li[2]) = 2
    /\ returned["Vitamins"]["Vitamin D"]["Daily Value"] = PyStr(<<"1", "0", "%">>)
    /\ returned["Vitamins"]["Potassium"]["Daily Value"] = PyStr(<<"2", "0", "%">>)
    /\ returned["Vitamins"]["Calcium"]["Daily Value"] = PyStr(<<"3", "0", "%">>)
    /\ returned["Vitamins"]["Iron"]["Daily Value"] = PyStr(<<"4", "0", "%">>)
    /\ returned["Vitamins"]["Iron"]["Amount"] = PyStr(<<>>)

\* The position of the n-th comma of text; 0 for n = 0 and one past the end
\* when the text has fewer than n commas.
CommaAt(text, n) ==
    IF n = 0 THEN 0
    ELSE IF n > Count(text, ",") THEN Len(text) + 1
    ELSE CHOOSE p \in 1..Len(text) :
             text[p] = "," /\ Count(SubSeq(text, 1, p), ",") = n

\* The n-th comma-separated fragment of text, counted from 1.
Fragment(text, n) == SubSeq(text, CommaAt(text, n - 1) + 1, CommaAt(text, n) - 1)

OneEntryPerFragment(list, text) ==
    /\ IsListOfStr(list)
    /\ Len(list.items) = Count(text, ",") + 1
    /\ \A n \in 1..Len(list.items) :
          list.items[n] = PyStr(Capitalize(Strip(Fragment(text, n))))

\* C8: with an element of the class present, Ingredients (Allergens) has one
\* entry per comma-separated fragment of the first such element's text, in
\* order, trimmed and capitalized, empty fragments included; for Allergens
\* the text is trimmed and loses its leading "Ingredients include" first,
\* when and only when it starts with it.
C8_OneEntryPerFragment ==
    ReturnedFromPage =>
        /\ soup.ingredients # <<>> =>
              OneEntryPerFragment(returned["Ingredients"], soup.ingredients[1])
        /\ soup.allergens # <<>> =>
              LET text == Strip(soup.allergens[1])
                  n == Len(LabelIngredientsInclude)
              IN  OneEntryPerFragment(
                      returned["Allergens"],
                      IF Len(text) >= n /\ SubSeq(text, 1, n) = LabelIngredientsInclude
                      THEN SubSeq(text, n + 1, Len(text))
                      ELSE text)

\* " rolled OATS ,,butter\n" gave three entries, the second empty, next to
\* allergens whose leading "Ingredients include" was removed.
C8_Witness ==
    /\ ReturnedFromPage
    /\ soup.ingredients # <<>>
    /\ soup.ingredients[1] = TextOatsButter
    /\ returned["Ingredients"] =
          PyList(<< PyStr(<<"R", "o", "l", "l", "e", "d", " ", "o", "a", "t", "s">>),
                    PyStr(<<>>),
                    PyStr(<<"B", "u", "t", "t", "e", "r">>) >>)
    /\ returned["Allergens"] =
          PyList(<< PyStr(<<"M", "i", "l", "k">>), PyStr(<<"S", "o", "y">>) >>)

\* The text t without its first n characters: all of it gone when it has
\* no more than n.
WithoutFirst(t, n) == [k \in 1..(Len(t) - n) |-> t[n + k]]

\* What is left of the trimmed text of an element after its first
\* len(label) characters, trimmed again.
AfterLabel(text, label) == Strip(WithoutFirst(Strip(text), Len(label)))

\* The statements of the nutrition block that slice a label off: the nine
\* Amount entries.
AmountStatements == {i \in 1..Len(NUTRITION_FIELDS) : NUTRITION_FIELDS[i].label # <<>>}

\* C27: the serving size, calories, calories-from-fat and the nine nutrition
\* Amount entries hold either nothing or the trimmed element text without its
\* first len(label) characters, whether or not the text begins with the
\* label; the allergen prefix "Ingredients include" is removed only from a
\* text that begins with it, and a text that does not is split whole.
C27_LabelDroppedUnconditionally ==
    ReturnedFromPage =>
        /\ \A i \in 1..Len(CALORIES_SIZE_FIELDS) :
              i <= Len(soup.facts2) =>
                  GetPath(returned, CALORIES_SIZE_FIELDS[i].path) \in
                      { PyStr(AfterLabel(soup.facts2[i], CALORIES_SIZE_FIELDS[i].label)),
                        PyStr(<<>>) }
        /\ \A i \in AmountStatements :
              i <= Len(soup.facts4) =>
                  GetPath(returned, NUTRITION_FIELDS[i].path) \in
                      { PyStr(AfterLabel(soup.facts4[i], NUTRITION_FIELDS[i].label)),
                        PyStr(<<>>) }
        /\ Cardinality(AmountStatements) = 9
        /\ soup.allergens # <<>> =>
              \A t \in {Strip(soup.allergens[1])} :
                  returned["Allergens"] =
                      PyList(StripCapitalizeAll(
                          Split(IF StartsWith(t, LabelIngredientsInclude)
                                THEN WithoutFirst(t, Len(LabelIngredientsInclude))
                                ELSE t, ",")))

\* "Portion size: 2 cups" does not begin with "Serving Size" and has lost
\* its first twelve characters all the same.
C27_Witness ==
    /\ ReturnedFromPage
    /\ soup.facts2 # <<>>
    /\ ~StartsWith(Strip(soup.facts2[1]), LabelServingSize)
    /\ returned["Serving Size"] = PyStr(<<":", " ", "2", " ", "c", "u", "p", "s">>)

\* "About Total Fat 1g" has lost its first nine characters, and allergens
\* without the prefix are split whole.
UnlabelledAmountSliced ==
    /\ ReturnedFromPage
    /\ Len(soup.facts4) >= 1
    /\ ~StartsWith(Strip(soup.facts4[1]), LabelTotalFat)
    /\ returned["Fat"]["Total Fat"]["Amount"] =
          PyStr(<<"a", "l", " ", "F", "a", "t", " ", "1", "g">>)

---------------------------------------------------------------------------
(* StudentApp._parse_xml.  An ElementTree element is a record of its tag   *)
(* (a namespaced tag is "{uri}local", as ElementTree spells it), its       *)
(* attrib mapping, its text (None or a str) and its children in document   *)
(* order.                                                                  *)

Element(tag, attrib, text, children) ==
    [tag |-> tag, attrib |-> attrib, text |-> text, children |-> children]

\* "}" in tag
InTag(c, tag) == \E i \in 1..Len(tag) : tag[i] = c

\* element.tag.split("}", 1)[1]: what follows the first "}"
AfterFirstBrace(tag) ==
    Drop(tag, CHOOSE i \in 1..Len(tag) : tag[i] = "}" /\ \A j \in 1..(i - 1) : tag[j] # "}")

\* The tag the loop body of _remove_xml_namespace leaves on one element.
WithoutNamespace(tag) == IF InTag("}", tag) THEN AfterFirstBrace(tag) ELSE tag

\* for element in document.iter(): the element itself and all its descendants
RECURSIVE RemoveXmlNamespaceIter(_)
RemoveXmlNamespaceIter(element) ==
    [element EXCEPT
        !.tag = WithoutNamespace(@),
        !.children = [i \in 1..Len(@) |-> RemoveXmlNamespaceIter(@[i])]]

\* The namespace removed from the tag of the root alone.
RemoveXmlNamespaceRootOnly(root) == [root EXCEPT !.tag = WithoutNamespace(@)]

\* _remove_xml_namespace(document)
RemoveXmlNamespaceOf(root) == RemoveXmlNamespaceIter(root)

\* element.text and element.text.strip()
HasText(element) == element.text # PyNone /\ Strip(element.text.chars) # <<>>

TextKey == <<"t", "e", "x", "t">>

\* One pass of the inner loop of _xml_to_dict: the entry (key, value) of one
\* child merged into child_dict.
MergeEntry(child_dict, key, value) ==
    IF key \in DOMAIN child_dict
    THEN IF child_dict[key].type # "list"
         THEN [child_dict EXCEPT ![key] = PyList(<<@, value>>)]
         ELSE [child_dict EXCEPT ![key] = PyList(Append(@.items, value))]
    ELSE (key :> value) @@ child_dict

\* data[element.tag] as _xml_to_dict(element) leaves it.
RECURSIVE XmlValue(_)
RECURSIVE MergeChildren(_, _, _)
MergeChildren(child_dict, children, i) ==
    IF i > Len(children) THEN child_dict
    ELSE MergeChildren(
             MergeEntry(child_dict, children[i].tag, XmlValue(children[i])),
             children, i + 1)

\* A text branch that looks at the children only: the text of an element
\* with attributes and no children becomes the whole value.
XmlValueTextKeyedByChildren(element) ==
    LET children == element.children
        initial == IF children # <<>> THEN PyDict(MergeChildren(<<>>, children, 1))
                   ELSE IF element.attrib # <<>> THEN PyDict(<<>>)
                   ELSE PyNone
        updated == IF element.attrib # <<>>
                   THEN PyDict([k \in DOMAIN element.attrib |-> PyStr(element.attrib[k])]
                               @@ initial.map)
                   ELSE initial
    IN  IF HasText(element)
        THEN IF children # <<>>
             THEN PyDict((TextKey :> PyStr(Strip(element.text.chars))) @@ updated.map)
             ELSE PyStr(Strip(element.text.chars))
        ELSE updated

\* An update that keeps the entry of a child whose tag an attribute shares.
XmlValueChildrenFirst(element) ==
    LET children == element.children
        initial == IF children # <<>> THEN PyDict(MergeChildren(<<>>, children, 1))
                   ELSE IF element.attrib # <<>> THEN PyDict(<<>>)
                   ELSE PyNone
        updated == IF element.attrib # <<>>
                   THEN PyDict(initial.map
                               @@ [k \in DOMAIN element.attrib |-> PyStr(element.attrib[k])])
                   ELSE initial
    IN  IF HasText(element)
        THEN IF children # <<>> \/ element.attrib # <<>>
             THEN PyDict((TextKey :> PyStr(Strip(element.text.chars))) @@ updated.map)
             ELSE PyStr(Strip(element.text.chars))
        ELSE updated

XmlValue(element) ==
    LET children == element.children
        initial == IF children # <<>> THEN PyDict(MergeChildren(<<>>, children, 1))
                   ELSE IF element.attrib # <<>> THEN PyDict(<<>>)
                   ELSE PyNone
        updated == IF element.attrib # <<>>
                   THEN PyDict([k \in DOMAIN element.attrib |-> PyStr(element.attrib[k])]
                               @@ initial.map)
                   ELSE initial
    IN  IF HasText(element)
        THEN IF children # <<>> \/ element.attrib # <<>>
             THEN PyDict((TextKey :> PyStr(Strip(element.text.chars))) @@ updated.map)
             ELSE PyStr(Strip(element.text.chars))
        ELSE updated

\* _xml_to_dict(element): {element.tag: ...}
XmlToDict(element) == PyDict(element.tag :> XmlValue(element))

\* The text is a well-formed document: ET.fromstring returns its root.
WellFormed(text) == "tag" \in DOMAIN text

\* root = ET.fromstring(xml); a text that is not well-formed raises ParseError
FromString ==
    /\ xpc = "fromstring"
    /\ parses' = parses + 1
    /\ IF WellFormed(xml)
       THEN /\ document' = xml
            /\ xpc' = "remove_namespace"
       ELSE /\ xpc' = "except"
            /\ UNCHANGED document
    /\ UNCHANGED <<xml, decoded, xlog, amenities, scraperVars, icalVars, clientVars, recordVars, promptVars>>

\* self._remove_xml_namespace(root)
RemoveXmlNamespace ==
    /\ xpc = "remove_namespace"
    /\ document' = RemoveXmlNamespaceOf(document)
    /\ xpc' = "xml_to_dict"
    /\ UNCHANGED <<xml, decoded, xlog, parses, amenities, scraperVars, icalVars, clientVars, recordVars, promptVars>>

\* return self._xml_to_dict(root)
ReturnXmlToDict ==
    /\ xpc = "xml_to_dict"
    /\ decoded' = XmlToDict(document)
    /\ xpc' = "returned"
    /\ UNCHANGED <<xml, document, xlog, parses, amenities, scraperVars, icalVars, clientVars, recordVars, promptVars>>

\* An exception on its way to the caller.
Exception(class, cause) == [type |-> "exception", class |-> class, cause |-> cause]

\* The two logger.error lines of the handler.
ParseErrorLog(text) ==
    << [message |-> "Failed to parse XML response. Raw content", content |-> text],
       [message |-> "ParseError details", content |-> Exception("ParseError", PyNone)] >>

\* A handler that raises without having logged.
ExceptParseErrorSilently ==
    /\ xpc = "except"
    /\ decoded' = Exception("ValueError", Exception("ParseError", PyNone))
    /\ xpc' = "raised"
    /\ UNCHANGED <<xml, document, xlog, parses, amenities, scraperVars, icalVars, clientVars, recordVars, promptVars>>

\* except ET.ParseError as e: two logger.error lines, then
\* raise ValueError(...) from e
ExceptParseError ==
    /\ xpc = "except"
    /\ xlog' = xlog \o ParseErrorLog(xml)
    /\ decoded' = Exception("ValueError", Exception("ParseError", PyNone))
    /\ xpc' = "raised"
    /\ UNCHANGED <<xml, document, parses, amenities, scraperVars, icalVars, clientVars, recordVars, promptVars>>

\* value[key] of Python: the entry of a dict that has the key, KeyError of a
\* dict that has not, TypeError of None, of a str and of a list subscripted
\* by a str; an exception subscripted is that exception on its way.
Subscript(value, key) ==
    IF value.type = "exception" THEN value
    ELSE IF value.type # "dict" THEN Exception("TypeError", PyNone)
    ELSE IF key \in DOMAIN value.map THEN value.map[key]
    ELSE Exception("KeyError", PyNone)

TagLocation == <<"l", "o", "c", "a", "t", "i", "o", "n">>

TagAmenities == <<"a", "m", "e", "n", "i", "t", "i", "e", "s">>

TagAmenity == <<"a", "m", "e", "n", "i", "t", "y">>

NameKey == <<"n", "a", "m", "e">>

\* [amenity["name"] for amenity in amenities_data]: the names, or the
\* exception of the first entry that has none.
NamesOf(amenities_data) ==
    LET names == [i \in 1..Len(amenities_data) |-> Subscript(amenities_data[i], NameKey)]
        failing == {i \in 1..Len(amenities_data) : names[i].type = "exception"}
    IN  IF failing = {} THEN PyList(names)
        ELSE names[CHOOSE i \in failing : \A j \in failing : i <= j]

\* A normalization without the isinstance test: the single-object branch
\* for whatever the decoder made.
GetAmenitiesOfSingle(obj) ==
    LET name == Subscript(Subscript(Subscript(obj, TagAmenities), TagAmenity), NameKey)
    IN  IF name.type = "exception" THEN name ELSE PyList(<<name>>)

\* DiningLocationSerializer.get_amenities(obj), and lines 160-164 of
\* _test_dining_apis
GetAmenitiesOf(obj) ==
    LET amenities_data == Subscript(Subscript(obj, TagAmenities), TagAmenity)
        name == Subscript(amenities_data, NameKey)
    IN  IF amenities_data.type = "exception" THEN amenities_data
        ELSE IF amenities_data.type = "list" THEN NamesOf(amenities_data.items)
        ELSE IF name.type = "exception" THEN name
        ELSE PyList(<<name>>)

\* The serializer run on a decoded location.
GetAmenities ==
    /\ xpc = "returned"
    /\ DOMAIN decoded.map = {TagLocation}
    /\ amenities' = GetAmenitiesOf(decoded.map[TagLocation])
    /\ xpc' = "serialized"
    /\ UNCHANGED <<xml, document, decoded, xlog, parses, scraperVars, icalVars, clientVars, recordVars, promptVars>>

XmlNext ==
    \/ FromString
    \/ RemoveXmlNamespace
    \/ ReturnXmlToDict
    \/ ExceptParseError
    \/ GetAmenities

---------------------------------------------------------------------------
(* The documents _parse_xml is run on.                                     *)

\* Children an element of the generated documents holds at most.
MaxChildren == 3

TagItem == <<"i", "t", "e", "m">>

TagName == <<"n", "a", "m", "e">>

TagLoc == <<"l", "o", "c">>

TagLocations == TagLoc \o <<"a", "t", "i", "o", "n", "s">>

AttrId == <<"i", "d">>

\* "{uri}local": the tag of an element in the namespace `uri`
Clark(uri, local) == <<"{">> \o uri \o <<"}">> \o local

NsU == <<"u", "r", "n", ":", "u">>

NsV == <<"u", "r", "n", ":", "v">>

Leaves ==
    { Element(TagItem, <<>>, PyStr(<<"1">>), <<>>),
      Element(Clark(NsU, TagItem), <<>>, PyStr(<<" ", "2", "\n">>), <<>>),
      Element(TagItem, (Clark(NsU, AttrId) :> <<"7">>), PyNone, <<>>),
      Element(TagItem, <<>>, PyStr(<<" ">>), <<>>),
      Element(Clark(NsV, TagName), <<>>, PyStr(<<"n">>), <<>>),
      Element(TextKey, <<>>, PyStr(<<"t">>), <<>>) }

\* Every list of at most MaxChildren leaves.
LeafLists == UNION {[1..n -> Leaves] : n \in 0..MaxChildren}

\* One element over a list of leaves: with or without a namespace, without
\* attributes, with an attribute named as a child tag, with another one or
\* with one named `text`, without text, with text or with blank text.
FlatDocuments ==
    { Element(tag, attrib, text, children) :
        tag \in {TagLoc, Clark(NsU, TagLoc)},
        attrib \in {<<>>, (TagItem :> <<"x">>), (AttrId :> <<"9">>), (TextKey :> <<"a">>)},
        text \in {PyNone, PyStr(<<"h", "i">>), PyStr(<<" ", "\n">>)},
        children \in LeafLists }

\* Two levels: a list of one or two locations below a namespaced root.
Locations ==
    { Element(Clark(NsU, TagLoc), <<>>, PyNone,
              << Element(Clark(NsU, TagItem), <<>>, PyStr(<<"1">>), <<>>) >>),
      Element(Clark(NsU, TagLoc), (AttrId :> <<"9">>), PyStr(<<"\n">>),
              << Element(Clark(NsU, TagItem), <<>>, PyStr(<<"1">>), <<>>),
                 Element(Clark(NsV, TagName), <<>>, PyStr(<<"n">>), <<>>),
                 Element(Clark(NsU, TagItem), <<>>, PyStr(<<"2">>), <<>>) >>),
      Element(TagLoc, <<>>, PyNone, <<>>) }

NestedDocuments ==
    { Element(Clark(NsU, TagLocations), <<>>, PyStr(<<"\n">>), children) :
        children \in [1..1 -> Locations] \cup [1..2 -> Locations] }

\* Amenity children a generated location holds at most.
MaxAmenities == 3

\* <amenity><name>...</name></amenity>
Amenity(name) ==
    Element(TagAmenity, <<>>, PyStr(<<"\n">>), << Element(TagName, <<>>, PyStr(name), <<>>) >>)

AmenityNames == {<<"A">>, <<" ", "B", "\n">>}

AmenityLists == UNION {[1..n -> {Amenity(name) : name \in AmenityNames}] : n \in 0..MaxAmenities}

\* A location with its name and its amenities, with or without a namespace,
\* and a location without the amenities element.
LocationDocuments ==
    { Element(tag, <<>>, PyNone,
              << Element(TagName, <<>>, PyStr(<<"W">>), <<>>),
                 Element(TagAmenities, <<>>, PyNone, list) >>) :
        tag \in {TagLocation, Clark(NsU, TagLocation)}, list \in AmenityLists }
    \cup { Element(TagLocation, <<>>, PyNone,
                   << Element(TagName, <<>>, PyStr(<<"W">>), <<>>) >>) }

\* Texts that are not well-formed.
MalformedTexts ==
    { [type |-> "malformed", text |-> <<"<", "a", ">">>],
      [type |-> "malformed", text |-> <<>>] }

InitXml ==
    /\ xml \in FlatDocuments \cup NestedDocuments \cup LocationDocuments \cup MalformedTexts
    /\ document = PyNone
    /\ xpc = "fromstring"
    /\ decoded = PyNone
    /\ xlog = <<>>
    /\ parses = 0
    /\ amenities = PyNone
    /\ IdleScraper
    /\ IdleIcal
    /\ IdleClient
    /\ IdleRecords
    /\ IdlePrompt

SpecXml == InitXml /\ [][XmlNext]_vars

\* Both programs, one of them running.
Init == InitScraper \/ InitXml

Next == ScraperNext \/ XmlNext

Spec == Init /\ [][Next]_vars

---------------------------------------------------------------------------
(* Properties of StudentApp._parse_xml.                                    *)

XmlReturned == xpc = "returned"

\* An element and all its descendants.
RECURSIVE Elements(_)
Elements(element) ==
    {element} \cup UNION {Elements(element.children[i]) : i \in 1..Len(element.children)}

\* What the decoder made of an element of the tree it was given: for the
\* root, what the returned mapping holds under the root's tag.
DecodedValue(element) ==
    IF element = document THEN decoded.map[document.tag] ELSE XmlValue(element)

\* The children of element that carry tag t, in document order.
ChildrenTagged(element, t) ==
    LET Tagged(c) == c.tag = t IN SelectSeq(element.children, Tagged)

ChildTags(element) == {element.children[i].tag : i \in 1..Len(element.children)}

\* The decoded element holds, under t, one value per child tagged t, in
\* document order.
ListOfAllTagged(element, t) ==
    /\ DecodedValue(element).type = "dict"
    /\ t \in DOMAIN DecodedValue(element).map
    /\ DecodedValue(element).map[t] =
          PyList([k \in 1..Len(ChildrenTagged(element, t)) |->
                     XmlValue(ChildrenTagged(element, t)[k])])

\* C9 as claimed: every element with N >= 2 children of one tag decodes to a
\* mapping with a list of exactly N values, one per child, at that key.
C9_RepeatedChildrenMakeList ==
    XmlReturned =>
        \A e \in Elements(document) :
            \A t \in ChildTags(e) :
                Len(ChildrenTagged(e, t)) >= 2 => ListOfAllTagged(e, t)

\* The key t of the decoded element is taken by one of its attributes or by
\* its text.
KeyTakenOver(element, t) ==
    \/ t \in DOMAIN element.attrib
    \/ t = TextKey /\ HasText(element)

\* What the decoder does hold for a repeated child tag: the list of all the
\* children's values, unless the key is the name of an attribute of the
\* element or, when the element has non-blank text, the tag `text`; then the
\* key holds the attribute value or the text and the children are gone.
RepeatedChildrenListOrTakenOver ==
    XmlReturned =>
        \A e \in Elements(document) :
            \A t \in ChildTags(e) :
                Len(ChildrenTagged(e, t)) >= 2 =>
                    IF KeyTakenOver(e, t)
                    THEN DecodedValue(e).map[t] =
                             IF t = TextKey /\ HasText(e)
                             THEN PyStr(Strip(e.text.chars))
                             ELSE PyStr(e.attrib[t])
                    ELSE ListOfAllTagged(e, t)

\* <loc item="x"><item>1</item><name>1</name><item/></loc>: the key item
\* holds the attribute's "x" and neither child.
C9_Witness ==
    /\ XmlReturned
    /\ Len(document.children) = 3
    /\ document.attrib = (TagItem :> <<"x">>)
    /\ document.children[1].tag = TagItem
    /\ document.children[2].tag = TagName
    /\ document.children[3].tag = TagItem
    /\ decoded.map[document.tag].map[TagItem] = PyStr(<<"x">>)

\* The local part of a tag: what follows its last "}".
LocalName(tag) ==
    LET braces == {i \in 1..Len(tag) : tag[i] = "}"}
    IN  IF braces = {} THEN tag
        ELSE SubSeq(tag, (CHOOSE i \in braces : \A j \in braces : j <= i) + 1, Len(tag))

RECURSIVE LocalTree(_)
LocalTree(element) ==
    [element EXCEPT
        !.tag = LocalName(@),
        !.children = [i \in 1..Len(@) |-> LocalTree(@[i])]]

\* C10: once _remove_xml_namespace has run, the tree is the parsed one with
\* every tag, the root's and every descendant's, cut to its local part, and
\* no tag holds a brace; the returned mapping is the conversion of that tree,
\* its one key is the root's local name, every decoded element holds each of
\* its child tags' local names as a key, and a key with a namespace part is
\* the name of an attribute, never a tag.
C10_NamespaceRemoved ==
    /\ xpc \in {"xml_to_dict", "returned"} =>
          /\ document = LocalTree(xml)
          /\ \A e \in Elements(document) : ~InTag("}", e.tag) /\ ~InTag("{", e.tag)
    /\ XmlReturned =>
          /\ decoded = XmlToDict(LocalTree(xml))
          /\ DOMAIN decoded.map = {LocalName(xml.tag)}
          /\ \A e \in Elements(xml) :
                \A v \in {IF e = xml THEN decoded.map[LocalName(xml.tag)]
                          ELSE XmlValue(LocalTree(e))} :
                    /\ \A i \in 1..Len(e.children) :
                          LocalName(e.children[i].tag) \in DOMAIN v.map
                    /\ v.type = "dict" =>
                          \A k \in DOMAIN v.map :
                              InTag("}", k) => k \in DOMAIN e.attrib

\* A namespaced root over a namespaced location over a namespaced item:
\* locations, loc and item are the keys.
C10_Witness ==
    /\ XmlReturned
    /\ xml.tag = Clark(NsU, TagLocations)
    /\ Len(xml.children) = 1
    /\ xml.children[1].tag = Clark(NsU, TagLoc)
    /\ Len(xml.children[1].children) = 1
    /\ xml.children[1].children[1].tag = Clark(NsU, TagItem)
    /\ decoded = PyDict(TagLocations :> PyDict(TagLoc :> PyDict(TagItem :> PyStr(<<"1">>))))

\* The text of an element holds a character that is not white space.
NonBlankText(element) ==
    /\ element.text # PyNone
    /\ \E i \in 1..Len(element.text.chars) : ~IsSpace(element.text.chars[i])

ChildrenValue(element, t) ==
    IF Len(ChildrenTagged(element, t)) = 1
    THEN XmlValue(ChildrenTagged(element, t)[1])
    ELSE PyList([k \in 1..Len(ChildrenTagged(element, t)) |->
                    XmlValue(ChildrenTagged(element, t)[k])])

\* C29: in the mapping of an element with children or attributes, the
\* non-blank text of the element holds the key `text` whatever child or
\* attribute has that name; an attribute holds its key whatever child has
\* that tag, unless the text took it; a child tag holds its children's value
\* or list of values only when neither took the key; and every child tag and
\* every attribute name is a key of the mapping.
C29_CollisionPrecedence ==
    XmlReturned =>
        \A e \in Elements(document) :
            (e.children # <<>> \/ e.attrib # <<>>) =>
                \A v \in {DecodedValue(e)} :
                    /\ v.type = "dict"
                    /\ ChildTags(e) \cup DOMAIN e.attrib \subseteq DOMAIN v.map
                    /\ \A k \in DOMAIN v.map :
                          v.map[k] =
                              IF k = TextKey /\ NonBlankText(e)
                              THEN PyStr(Strip(e.text.chars))
                              ELSE IF k \in DOMAIN e.attrib
                              THEN PyStr(e.attrib[k])
                              ELSE ChildrenValue(e, k)

\* <loc item="x">hi<item>1</item><text>t</text></loc> decodes to
\* {loc: {item: "x", text: "hi"}}: the attribute took the key of the one
\* child and the text the key of the other.
C29_Witness ==
    /\ XmlReturned
    /\ document.attrib = (TagItem :> <<"x">>)
    /\ document.text = PyStr(<<"h", "i">>)
    /\ Len(document.children) = 2
    /\ document.children[1] = Element(TagItem, <<>>, PyStr(<<"1">>), <<>>)
    /\ document.children[2] = Element(TextKey, <<>>, PyStr(<<"t">>), <<>>)
    /\ decoded.map[document.tag] =
          PyDict((TagItem :> PyStr(<<"x">>)) @@ (TextKey :> PyStr(<<"h", "i">>)))

\* <loc text="a">hi</loc> decodes to {loc: {text: "hi"}}: the text took the
\* key of the attribute.
TextReplacesAttribute ==
    /\ XmlReturned
    /\ document.attrib = (TextKey :> <<"a">>)
    /\ document.text = PyStr(<<"h", "i">>)
    /\ document.children = <<>>
    /\ decoded.map[document.tag] = PyDict(TextKey :> PyStr(<<"h", "i">>))

---------------------------------------------------------------------------
(* StudentApp._parse_ical.  A calendar component is a record of its name,  *)
(* its properties (a mapping from property name to value) and its          *)
(* subcomponents in feed order.                                            *)

Component(name, props, subcomponents) ==
    [name |-> name, props |-> props, subcomponents |-> subcomponents]

\* A point in time, by its hour.
DateTime(hour) == [type |-> "datetime", hour |-> hour]

\* A date or date-time property: the object whose .dt the decoder reads.
vDDDTypes(dt) == [type |-> "vDDDTypes", dt |-> dt]

\* component.get(key): the property, or None when the component has none
Get(component, key) ==
    IF key \in DOMAIN component.props THEN component.props[key] ELSE PyNone

\* cal.walk(): the component, then the walk of each subcomponent in order
RECURSIVE Walk(_)
RECURSIVE WalkAll(_, _)
WalkAll(subcomponents, i) ==
    IF i > Len(subcomponents) THEN <<>>
    ELSE Walk(subcomponents[i]) \o WalkAll(subcomponents, i + 1)

Walk(component) == <<component>> \o WalkAll(component.subcomponents, 1)

\* The dict built for a VCALENDAR component.
CalendarInfoOf(component) ==
    PyDict([calname |-> Get(component, "X-WR-CALNAME"),
            timezone |-> Get(component, "X-WR-TIMEZONE"),
            prodid |-> Get(component, "PRODID"),
            version |-> Get(component, "VERSION")])

\* component.get("DTSTART").dt and component.get("DTEND").dt can be read
DatesPresent(component) ==
    /\ Get(component, "DTSTART") # PyNone
    /\ Get(component, "DTEND") # PyNone

\* The dict built for a VEVENT component that has both dates.
EventOf(component) ==
    PyDict([summary |-> Get(component, "SUMMARY"),
            start |-> Get(component, "DTSTART").dt,
            end |-> Get(component, "DTEND").dt,
            uid |-> Get(component, "UID"),
            description |-> Get(component, "DESCRIPTION")])

\* elif component.name == "VEVENT"
IsEvent(component) == component.name = "VEVENT"

\* The text is one calendar that Calendar.from_ical can parse.
Parsable(feed) == feed.type = "calendar"

\* What _parse_ical(ical_text) hands to its caller: the ValueError of
\* from_ical, the AttributeError of the first VEVENT without a date, or the
\* result with the info of the last VCALENDAR and one entry per VEVENT.
ParseIcal(feed) ==
    IF ~Parsable(feed) THEN Exception("ValueError", PyNone)
    ELSE LET components == Walk(feed.cal)
             IsCalendar(c) == c.name = "VCALENDAR"
             calendars == SelectSeq(components, IsCalendar)
             vevents == SelectSeq(components, IsEvent)
         IN  IF \E i \in 1..Len(vevents) : ~DatesPresent(vevents[i])
             THEN Exception("AttributeError", PyNone)
             ELSE PyDict([calendar_info |->
                              IF calendars = <<>> THEN PyDict(<<>>)
                              ELSE CalendarInfoOf(calendars[Len(calendars)]),
                          events |-> PyList([i \in 1..Len(vevents) |-> EventOf(vevents[i])])])

\* cal = Calendar.from_ical(ical_text); calendar_info = {}; events = []
FromIcal ==
    /\ ipc = "from_ical"
    /\ IF Parsable(ical)
       THEN /\ walk' = Walk(ical.cal)
            /\ calendar_info' = PyDict(<<>>)
            /\ ipc' = "walk"
            /\ UNCHANGED icalResult
       ELSE /\ icalResult' = Exception("ValueError", PyNone)
            /\ ipc' = "raised"
            /\ UNCHANGED <<walk, calendar_info>>
    /\ UNCHANGED <<ical, events, scraperVars, xmlVars, clientVars, recordVars, promptVars>>

\* A loop that passes over a VEVENT without DTSTART or DTEND.
WalkStepSkippingUndated ==
    /\ ipc = "walk"
    /\ walk # <<>>
    /\ LET component == Head(walk)
       IN  /\ calendar_info' = IF component.name = "VCALENDAR"
                               THEN CalendarInfoOf(component) ELSE calendar_info
           /\ events' = IF IsEvent(component) /\ DatesPresent(component)
                        THEN Append(events, EventOf(component)) ELSE events
           /\ walk' = Tail(walk)
    /\ UNCHANGED <<ical, ipc, icalResult, scraperVars, xmlVars, clientVars, recordVars, promptVars>>

\* One pass of `for component in cal.walk()`.
WalkStep ==
    /\ ipc = "walk"
    /\ walk # <<>>
    /\ LET component == Head(walk)
       IN  IF component.name = "VCALENDAR"
           THEN /\ calendar_info' = CalendarInfoOf(component)
                /\ walk' = Tail(walk)
                /\ UNCHANGED <<events, ipc, icalResult>>
           ELSE IF IsEvent(component)
           THEN IF DatesPresent(component)
                THEN /\ events' = Append(events, EventOf(component))
                     /\ walk' = Tail(walk)
                     /\ UNCHANGED <<calendar_info, ipc, icalResult>>
                ELSE /\ icalResult' = Exception("AttributeError", PyNone)
                     /\ ipc' = "raised"
                     /\ UNCHANGED <<calendar_info, events, walk>>
           ELSE /\ walk' = Tail(walk)
                /\ UNCHANGED <<calendar_info, events, ipc, icalResult>>
    /\ UNCHANGED <<ical, scraperVars, xmlVars, clientVars, recordVars, promptVars>>

\* return {"calendar_info": calendar_info, "events": events}
ReturnIcal ==
    /\ ipc = "walk"
    /\ walk = <<>>
    /\ icalResult' = PyDict([calendar_info |-> calendar_info, events |-> PyList(events)])
    /\ ipc' = "returned"
    /\ UNCHANGED <<ical, walk, calendar_info, events, scraperVars, xmlVars, clientVars, recordVars, promptVars>>

IcalNext ==
    \/ FromIcal
    \/ WalkStep
    \/ ReturnIcal

---------------------------------------------------------------------------
(* The feeds _parse_ical is run on.                                        *)

\* Components the calendar of a generated feed holds at most.
MaxComponents == 3

\* VEVENT with every property the decoder reads.
EventLunch ==
    Component("VEVENT",
              [SUMMARY |-> PyStr(<<"L">>), DTSTART |-> vDDDTypes(DateTime(11)), DTEND |-> vDDDTypes(DateTime(13)),
               UID |-> PyStr(<<"u", "1">>), DESCRIPTION |-> PyStr(<<"d">>)],
              <<>>)

\* VEVENT with its dates alone, and an alarm inside.
EventBare ==
    Component("VEVENT", [DTSTART |-> vDDDTypes(DateTime(17)), DTEND |-> vDDDTypes(DateTime(20))],
              << Component("VALARM", [ACTION |-> PyStr(<<"D">>)], <<>>) >>)

\* VEVENT without DTEND.
EventOpenEnded ==
    Component("VEVENT", [SUMMARY |-> PyStr(<<"B">>), DTSTART |-> vDDDTypes(DateTime(7))], <<>>)

\* VEVENT without DTSTART.
EventNoStart ==
    Component("VEVENT", [DTEND |-> vDDDTypes(DateTime(22)), UID |-> PyStr(<<"u", "4">>)], <<>>)

TimeZone ==
    Component("VTIMEZONE", [TZID |-> PyStr(<<"E">>)],
              << Component("STANDARD", [DTSTART |-> vDDDTypes(DateTime(1))], <<>>) >>)

ToDo ==
    Component("VTODO", [SUMMARY |-> PyStr(<<"T">>), UID |-> PyStr(<<"u", "2">>)], <<>>)

\* A component that is no VEVENT and has both dates.
FreeBusy ==
    Component("VFREEBUSY", [DTSTART |-> vDDDTypes(DateTime(8)), DTEND |-> vDDDTypes(DateTime(9)),
                            UID |-> PyStr(<<"u", "3">>)], <<>>)

Subcomponents == {EventLunch, EventBare, EventOpenEnded, EventNoStart, TimeZone, ToDo, FreeBusy}

CalendarProps ==
    { ("X-WR-CALNAME" :> PyStr(<<"D">>)) @@ ("X-WR-TIMEZONE" :> PyStr(<<"E">>))
         @@ ("PRODID" :> PyStr(<<"p">>)) @@ ("VERSION" :> PyStr(<<"2">>)),
      ("PRODID" :> PyStr(<<"p">>)) @@ ("VERSION" :> PyStr(<<"2">>)),
      <<>> }

\* A text that is one VCALENDAR.
Calendars ==
    { [type |-> "calendar", cal |-> Component("VCALENDAR", props, subcomponents)] :
        props \in CalendarProps,
        subcomponents \in UNION {[1..n -> Subcomponents] : n \in 0..MaxComponents} }

\* A text that from_ical rejects.
NotACalendar == [type |-> "unparsable"]

InitIcal ==
    /\ ical \in Calendars \cup {NotACalendar}
    /\ ipc = "from_ical"
    /\ walk = <<>>
    /\ calendar_info = PyNone
    /\ events = <<>>
    /\ icalResult = PyNone
    /\ IdleScraper
    /\ IdleXml
    /\ IdleClient
    /\ IdleRecords
    /\ IdlePrompt

SpecIcal == InitIcal /\ [][IcalNext]_vars

---------------------------------------------------------------------------
(* Properties of StudentApp._parse_ical.                                   *)

IcalReturned == ipc = "returned"

\* The VEVENT components of a calendar in the order a reader of the feed
\* meets them.
RECURSIVE VEventsOf(_)
RECURSIVE VEventsOfAll(_, _)
VEventsOfAll(subcomponents, i) ==
    IF i > Len(subcomponents) THEN <<>>
    ELSE VEventsOf(subcomponents[i]) \o VEventsOfAll(subcomponents, i + 1)

VEventsOf(component) ==
    (IF component.name = "VEVENT" THEN <<component>> ELSE <<>>)
        \o VEventsOfAll(component.subcomponents, 1)

EventKeys == {"summary", "start", "end", "uid", "description"}

CalendarInfoKeys == {"calname", "timezone", "prodid", "version"}

\* What a returned value holds: one entry per VEVENT of the feed, in feed
\* order, each with the keys summary, start, end, uid, description and with
\* that VEVENT's properties; nothing for any other component; and a
\* calendar_info with the keys calname, timezone, prodid, version.
OneEventPerVEvent ==
    \A vevents \in {VEventsOf(ical.cal)} :
        /\ icalResult.type = "dict"
        /\ icalResult.map.events.type = "list"
        /\ Len(icalResult.map.events.items) = Len(vevents)
        /\ \A i \in 1..Len(vevents) :
              \A event \in {icalResult.map.events.items[i]} :
                  /\ event.type = "dict"
                  /\ DOMAIN event.map = EventKeys
                  /\ event.map.summary = Get(vevents[i], "SUMMARY")
                  /\ Get(vevents[i], "DTSTART") # PyNone
                  /\ event.map.start = vevents[i].props["DTSTART"].dt
                  /\ Get(vevents[i], "DTEND") # PyNone
                  /\ event.map.end = vevents[i].props["DTEND"].dt
                  /\ event.map.uid = Get(vevents[i], "UID")
                  /\ event.map.description = Get(vevents[i], "DESCRIPTION")
        /\ vevents = <<>> => icalResult.map.events = PyList(<<>>)
        /\ icalResult.map.calendar_info.type = "dict"
        /\ DOMAIN icalResult.map.calendar_info.map = CalendarInfoKeys

\* C18 as claimed: _parse_ical, run on a calendar feed, returns, and what it
\* returns holds one entry per VEVENT of the feed in walk order with the five
\* keys, nothing for other components, and a calendar_info with its four
\* keys.
C18_OneEventPerVEvent ==
    (ipc \in {"returned", "raised"} /\ Parsable(ical)) =>
        IcalReturned /\ OneEventPerVEvent

\* The part of it the decoder keeps: whenever it returns, the returned value
\* is as claimed.
OneEventPerVEventOnReturn == IcalReturned => OneEventPerVEvent

\* A VEVENT that has no DTEND, after one that was captured: the decoder
\* raises AttributeError and returns no event at all.
C18_Witness ==
    /\ ipc = "raised"
    /\ Parsable(ical)
    /\ ical.cal.subcomponents = <<EventLunch, EventOpenEnded>>
    /\ events = <<EventOf(EventLunch)>>
    /\ icalResult = Exception("AttributeError", PyNone)

\* Two VEVENTs around a VTIMEZONE: two entries, in feed order.
EventsInFeedOrder ==
    /\ IcalReturned
    /\ ical.cal.subcomponents = <<EventBare, TimeZone, EventLunch>>
    /\ Len(icalResult.map.events.items) = 2
    /\ icalResult.map.events.items[1].map.start = DateTime(17)
    /\ icalResult.map.events.items[2].map.summary = PyStr(<<"L">>)

\* A calendar of a VTIMEZONE and a VTODO: no entry, and the four keys.
NoEventFourKeys ==
    /\ IcalReturned
    /\ ical.cal.subcomponents = <<TimeZone, ToDo>>
    /\ icalResult.map.events = PyList(<<>>)
    /\ DOMAIN icalResult.map.calendar_info.map = CalendarInfoKeys

---------------------------------------------------------------------------
(* The two decoders, one of them running.                                  *)

InitDecoders == InitXml \/ InitIcal

DecodersNext == XmlNext \/ IcalNext

SpecDecoders == InitDecoders /\ [][DecodersNext]_vars

\* No None in a value, at any depth.
RECURSIVE NeverNull(_)
NeverNull(value) ==
    /\ value # PyNone
    /\ value.type = "dict" => \A k \in DOMAIN value.map : NeverNull(value.map[k])
    /\ value.type = "list" => \A i \in 1..Len(value.items) : NeverNull(value.items[i])

EmptySentinels == {PyStr(<<>>), PyList(<<>>)}

\* The feed property behind each key of the result that the feed may omit.
CalendarProperty ==
    [calname |-> "X-WR-CALNAME", timezone |-> "X-WR-TIMEZONE",
     prodid |-> "PRODID", version |-> "VERSION"]

EventProperty == [summary |-> "SUMMARY", uid |-> "UID", description |-> "DESCRIPTION"]

\* C12 as claimed: no value in what _parse_xml or _parse_ical returns is
\* None; an XML element without attributes, children and non-blank text
\* decodes to an empty sentinel, and so does each of calname, timezone,
\* prodid, version, summary, uid, description that the feed omits.
C12_DecodedNeverNull ==
    /\ XmlReturned =>
          /\ NeverNull(decoded)
          /\ \A e \in Elements(document) :
                (e.attrib = <<>> /\ e.children = <<>> /\ ~NonBlankText(e))
                    => DecodedValue(e) \in EmptySentinels
    /\ IcalReturned =>
          /\ NeverNull(icalResult)
          /\ \A k \in CalendarInfoKeys :
                Get(ical.cal, CalendarProperty[k]) = PyNone
                    => icalResult.map.calendar_info.map[k] \in EmptySentinels
          /\ \A i \in 1..Len(icalResult.map.events.items) :
                \A k \in DOMAIN EventProperty :
                    Get(VEventsOf(ical.cal)[i], EventProperty[k]) = PyNone
                        => icalResult.map.events.items[i].map[k] \in EmptySentinels

\* <loc><item> </item></loc> decodes to {loc: {item: None}}.
C12_Witness ==
    /\ XmlReturned
    /\ document.attrib = <<>>
    /\ document.children = << Element(TagItem, <<>>, PyStr(<<" ">>), <<>>) >>
    /\ decoded.map[document.tag].map[TagItem] = PyNone

\* A calendar without properties over a VEVENT with its dates alone: every
\* other value of the result is None.
OmittedPropertiesAreNone ==
    /\ IcalReturned
    /\ ical.cal.props = <<>>
    /\ ical.cal.subcomponents = <<EventBare>>
    /\ \A k \in CalendarInfoKeys : icalResult.map.calendar_info.map[k] = PyNone
    /\ \A k \in {"summary", "uid", "description"} :
          icalResult.map.events.items[1].map[k] = PyNone

---------------------------------------------------------------------------
(* Properties of the failure path of _parse_xml and of the amenity         *)
(* normalization.                                                          *)

\* C17: on a text that is not well-formed _parse_xml makes one parse
\* attempt, logs the raw payload and the error, and raises ValueError caused
\* by the ParseError; it never reaches conversion, returns no mapping, and
\* parses once whatever it is given.
C17_MalformedRaisesValueError ==
    /\ parses <= 1
    /\ xpc = "raised" =>
          /\ ~WellFormed(xml)
          /\ parses = 1
          /\ decoded = Exception("ValueError", Exception("ParseError", PyNone))
          /\ Len(xlog) = 2
          /\ xlog[1].content = xml
          /\ document = PyNone
    /\ ~WellFormed(xml) =>
          /\ xpc \in {"fromstring", "except", "raised"}
          /\ xpc # "raised" => decoded = PyNone
          /\ document = PyNone

\* The text "<a>" has raised, with the text itself in the log.
C17_Witness ==
    /\ xpc = "raised"
    /\ xml = [type |-> "malformed", text |-> <<"<", "a", ">">>]
    /\ xlog[1].content.text = <<"<", "a", ">">>
    /\ decoded.class = "ValueError"
    /\ decoded.cause.class = "ParseError"

\* The amenity elements below the amenities element of a location.
AmenityElements(location) ==
    LET IsAmenities(c) == LocalName(c.tag) = TagAmenities
        found == SelectSeq(location.children, IsAmenities)
        IsAmenity(c) == LocalName(c.tag) = TagAmenity
    IN  IF found = <<>> THEN <<>> ELSE SelectSeq(found[1].children, IsAmenity)

\* The trimmed text of the name child of an amenity element.
AmenityName(amenity) ==
    LET IsName(c) == LocalName(c.tag) = TagName
    IN  PyStr(Strip(SelectSeq(amenity.children, IsName)[1].text.chars))

\* C19: for a location with N >= 1 amenity children the normalized value is
\* the list of the N amenity names in document order; for N = 1 the decoder
\* has made a single mapping and not a list, for N >= 2 a list of N.
C19_AmenitiesNormalized ==
    (xpc = "serialized" /\ Len(AmenityElements(xml)) >= 1) =>
        \A elements \in {AmenityElements(xml)} :
            /\ amenities = PyList([i \in 1..Len(elements) |-> AmenityName(elements[i])])
            /\ \A data \in {decoded.map[TagLocation].map[TagAmenities].map[TagAmenity]} :
                  IF Len(elements) = 1
                  THEN data = PyDict(NameKey :> AmenityName(elements[1]))
                  ELSE data.type = "list" /\ Len(data.items) = Len(elements)

\* One amenity: the decoder makes {name: "B"} and normalization ["B"].
C19_Witness ==
    /\ xpc = "serialized"
    /\ Len(AmenityElements(xml)) = 1
    /\ decoded.map[TagLocation].map[TagAmenities].map[TagAmenity] = PyDict(NameKey :> PyStr(<<"B">>))
    /\ amenities = PyList(<<PyStr(<<"B">>)>>)

\* Three amenities: a list of the three names in document order.
ThreeAmenitiesInOrder ==
    /\ xpc = "serialized"
    /\ amenities = PyList(<<PyStr(<<"B">>), PyStr(<<"A">>), PyStr(<<"B">>)>>)

---------------------------------------------------------------------------
(* The API client: StudentApp.__init__, _refresh_token and _make_request,  *)
(* Dining.get_locations, get_events and get_menu, execute_queries of the   *)
(* test client, and Scraper.get_html.  `trace` records, in order, every    *)
(* upstream request and every validation and decoding call the running     *)
(* operation has made.                                                     *)

\* The two client objects a Dining holds: itself and self.schemas.
Clients == {"dining", "schemas"}

REFRESH_TOKEN_URL == "https://api.princeton.edu:443/token"

DINING_LOCATIONS == "/dining/locations"

DINING_EVENTS == "/dining/events"

DINING_MENU == "/dining/menu"

DINING_XSD == "/dining/xsd"

\* os.environ.get("ACCESS_TOKEN") is token 0; the n-th token the token
\* endpoint issues is token n.
Token(serial) == [type |-> "token", serial |-> serial]

Event(call, client, target, result) ==
    [call |-> call, client |-> client, target |-> target, result |-> result]

\* A dict of queries is the record of its five possible keys; the value of a
\* key the dict does not hold is Missing.
Missing == [type |-> "missing"]

PyTrue == [type |-> "bool", value |-> TRUE]

QueriesDict(meal_types, locations, dates, category_ids, fetch_events) ==
    [meal_types |-> meal_types, locations |-> locations, dates |-> dates,
     category_ids |-> category_ids, fetch_events |-> fetch_events]

\* queries = {}
NoQueries == QueriesDict(Missing, Missing, Missing, Missing, Missing)

\* key in queries
HasKey(queries_, key) == queries_[key] # Missing

\* queries.get(key, default)
QueryGet(queries_, key, default) ==
    IF HasKey(queries_, key) THEN queries_[key] ELSE default

\* requests.get(url, params=params, ...) of _make_request and how it ended
Request(client, endpoint, params, result) ==
    [call |-> "GET", client |-> client, target |-> endpoint, result |-> result,
     params |-> params]

Returns(value) == [type |-> "return", value |-> value]

\* The local variables of the running operation: the response and schema
\* bodies, the queries and the date of today execute_queries runs with, the
\* passes its loops have still to make, the get_menu calls that raised, and
\* the link of get_html.
Locals(body, schema, queries_, today, pending, failures, link) ==
    [response |-> body, schema |-> schema, queries |-> queries_, today |-> today,
     pending |-> pending, failures |-> failures, link |-> link]

NoLocals == Locals("", "", NoQueries, PyNone, <<>>, 0, PyNone)

\* How a request can end: a response with a success status, no response
\* (transport error), or a response with an error status (raise_for_status).
RequestResults == {"ok", "ConnectionError", "HTTPError"}

\* What the token endpoint can answer to: a token, a failed request, a body
\* that is no JSON, or JSON without "access_token".
TokenResults == {"ok", "ConnectionError", "HTTPError", "DecodeError", "KeyError"}

\* Bodies the upstream serves at /dining/locations.
XmlPayloads == {"valid.xml", "other.xml", "none.xml", "invalid.xml", "malformed.xml"}

\* Bodies the upstream serves at /dining/xsd.
XsdPayloads == {"dining.xsd", "broken.xsd"}

\* Bodies the upstream serves at /dining/events.
IcalPayloads == {"feed.ics", "undated.ics", "broken.ics"}

\* The feed each body denotes: a calendar of two dated events, a calendar
\* whose second event has no DTEND, and a text that is no calendar.
Feed(ical_text) ==
    CASE ical_text = "feed.ics" ->
            [type |-> "calendar",
             cal |-> Component("VCALENDAR", <<>>, <<EventLunch, EventBare>>)]
      [] ical_text = "undated.ics" ->
            [type |-> "calendar",
             cal |-> Component("VCALENDAR", <<>>, <<EventLunch, EventOpenEnded>>)]
      [] ical_text = "broken.ics" -> NotACalendar

\* Bodies the upstream serves at /dining/menu.
JsonPayloads == {"menu.json", "broken.json"}

\* A _refresh_token that logs a failure and returns.
RefreshTokenSwallowing(result, serial) ==
    IF result = "ok"
    THEN [token |-> Token(serial), raised |-> PyNone]
    ELSE [token |-> Token(0), raised |-> PyNone]

\* _refresh_token: the token it leaves in ACCESS_TOKEN and what it raises.
RefreshToken(result, serial) ==
    IF result = "ok"
    THEN [token |-> Token(serial), raised |-> PyNone]
    ELSE [token |-> Token(0),
          raised |-> IF result \in {"ConnectionError", "HTTPError"}
                     THEN Exception("RequestException", Exception(result, PyNone))
                     ELSE IF result = "DecodeError"
                     THEN Exception("DecodeError", Exception("DecodeError", PyNone))
                     ELSE Exception("KeyError", PyNone)]

\* A _make_request that repeats a failed GET once.
MakeRequestCallsRetrying(client, endpoint, params, result) ==
    IF result = "ok"
    THEN << Request(client, endpoint, params, result) >>
    ELSE << Request(client, endpoint, params, result),
            Request(client, endpoint, params, result) >>

\* The upstream requests one call of _make_request issues.
MakeRequestCalls(client, endpoint, params, result) ==
    << Request(client, endpoint, params, result) >>

\* What _make_request hands to its caller: the body, or RequestException.
MakeRequestOutcome(result, body) ==
    IF result = "ok" THEN Returns(body)
    ELSE Exception("RequestException", Exception(result, PyNone))

\* validate_xml(xml_str, xsd_str): True, False after logging an
\* XMLSchemaValidationError, or the exception of another class that the
\* schema constructor or the XML parser raised.
ValidateXml(xml_str, xsd_str) ==
    IF xsd_str = "broken.xsd" THEN "XMLSchemaParseError"
    ELSE IF xml_str = "malformed.xml" THEN "ParseError"
    ELSE IF xml_str = "invalid.xml" THEN "False"
    ELSE "True"

\* A gate that lets every payload through to decoding.
AfterValidateAlwaysDecode(result) == "_parse_xml"

\* The step after validate_xml in get_locations and execute_queries.
AfterValidate(result) == IF result = "True" THEN "_parse_xml" ELSE "done"

\* _parse_xml(response) as its caller sees it.
ParseXmlOutcome(xml_str) ==
    IF xml_str = "malformed.xml"
    THEN Exception("ValueError", Exception("ParseError", PyNone))
    ELSE Returns(xml_str)

\* _parse_ical(response) as its caller sees it.
ParseIcalOutcome(ical_text) ==
    IF ParseIcal(Feed(ical_text)).type = "exception"
    THEN ParseIcal(Feed(ical_text))
    ELSE Returns(ical_text)

\* msj.decode(response)
DecodeOutcome(body) ==
    IF body = "broken.json" THEN Exception("DecodeError", PyNone) ELSE Returns(body)

\* A datetime.date.
Date(year, month, day) == [type |-> "date", year |-> year, month |-> month, day |-> day]

\* str(n) for n >= 0
RECURSIVE Decimal(_)
Decimal(n) ==
    IF n < 10 THEN <<DIGITS[n + 1]>> ELSE Decimal(n \div 10) \o <<DIGITS[(n % 10) + 1]>>

\* The decimal digits of n, with zeros before them up to `width` characters.
ZeroPadded(n, width) ==
    [i \in 1..(width - Len(Decimal(n))) |-> "0"] \o Decimal(n)

\* date.strftime("%Y-%m-%d"), for a year of four digits
Strftime(date) ==
    ZeroPadded(date.year, 4) \o <<"-">> \o ZeroPadded(date.month, 2)
        \o <<"-">> \o ZeroPadded(date.day, 2)

\* str.lower()
Lower(s) == [i \in 1..Len(s) |-> ToLower(s[i])]

\* term in name
Contains(name, term) ==
    \E i \in 0..(Len(name) - Len(term)) :
        \A k \in 1..Len(term) : name[i + k] = term[k]

\* bool(value) of None, True, a str, a list or a dict
Truthy(value) ==
    CASE value.type = "NoneType" -> FALSE
      [] value.type = "bool" -> value.value
      [] value.type = "str" -> value.chars # <<>>
      [] value.type = "list" -> value.items # <<>>
      [] value.type = "dict" -> DOMAIN value.map # {}

\* The elements of a finite set in some order.
RECURSIVE SetToSeq(_)
SetToSeq(set) ==
    IF set = {} THEN <<>>
    ELSE LET x == CHOOSE x \in set : TRUE IN <<x>> \o SetToSeq(set \ {x})

\* `for x in value` raises TypeError for None.
Iterable(value) == value.type \in {"list", "dict", "str"}

\* What `for x in value` binds x to: the items of a list, the keys of a dict
\* (each of them a str), the characters of a str.
Iter(value) ==
    CASE value.type = "list" -> value.items
      [] value.type = "dict" ->
            [i \in 1..Cardinality(DOMAIN value.map) |-> PyStr(SetToSeq(DOMAIN value.map)[i])]
      [] value.type = "str" -> [i \in 1..Len(value.chars) |-> PyStr(<<value.chars[i]>>)]

IsException(value) == value.type = "exception"

\* value.get(key, default): only a dict has the method.
DictGet(value, key, default) ==
    IF value.type # "dict" THEN Exception("AttributeError", PyNone)
    ELSE IF key \in DOMAIN value.map THEN value.map[key]
    ELSE default

TagDbid == <<"d", "b", "i", "d">>

UnknownName == PyStr(<<"U", "n", "k", "n", "o", "w", "n", " ", "N", "a", "m", "e">>)

UnknownDbid == PyStr(<<"U", "n", "k", "n", "o", "w", "n", " ", "D", "B", "I", "D">>)

\* dining_api._parse_xml(locations_response).get("locations", {}).get("location", [])
AllLocations(parsed_) ==
    \* the first get is on the dict _parse_xml returned
    LET inner == DictGet(parsed_, TagLocations, PyDict(<<>>))
    IN  IF IsException(inner) THEN inner ELSE DictGet(inner, TagLocation, PyList(<<>>))

\* One pass of the loop of filter_locations raises AttributeError: loc.get on
\* an element that is no dict, or .lower() on a name that is no str.
MatchRaises(loc) ==
    \/ loc.type # "dict"
    \/ DictGet(loc, TagName, PyStr(<<>>)).type # "str"

\* any(term.lower() in name for term in search_terms), name being
\* loc.get("name", "").lower()
Matches(loc, search_terms) ==
    \E i \in 1..Len(search_terms) :
        Contains(Lower(DictGet(loc, TagName, PyStr(<<>>)).chars), Lower(search_terms[i]))

\* filter_locations(locations, search_terms): the list of the locations whose
\* lower-cased name holds a lower-cased term, or the exception of the first
\* pass that raised.
FilterLocations(locations, search_terms) ==
    LET locs == Iter(locations)
    IN  IF ~Iterable(locations) THEN Exception("TypeError", PyNone)
        ELSE IF \E i \in 1..Len(locs) : MatchRaises(locs[i])
        THEN Exception("AttributeError", PyNone)
        ELSE LET Kept(loc) == Matches(loc, search_terms) IN PyList(SelectSeq(locs, Kept))

\* display_locations(locations): returns at once for a falsy argument, and
\* raises AttributeError at loc.get for an element that is no dict.
DisplayLocations(locations) ==
    IF ~Truthy(locations) THEN PyNone
    ELSE IF ~Iterable(locations) THEN Exception("TypeError", PyNone)
    ELSE IF \E i \in 1..Len(Iter(locations)) : Iter(locations)[i].type # "dict"
    THEN Exception("AttributeError", PyNone)
    ELSE PyNone

\* Lines 284-296 of execute_queries: the locations the loops will run over,
\* "return" when search terms were given and nothing matched, or the
\* exception that line 284, filter_locations or display_locations raised.
SelectLocations(parsed_, queries_) ==
    LET all_locations == AllLocations(parsed_)
        filtered_locations ==
            IF HasKey(queries_, "locations")
            THEN FilterLocations(all_locations, queries_["locations"].items)
            ELSE all_locations
    IN  IF IsException(all_locations) THEN all_locations
        ELSE IF IsException(filtered_locations) THEN filtered_locations
        ELSE IF HasKey(queries_, "locations") /\ ~Truthy(filtered_locations)
        THEN Returns("None")
        ELSE IF IsException(DisplayLocations(filtered_locations))
        THEN DisplayLocations(filtered_locations)
        ELSE filtered_locations

\* The passes of the three nested loops of lines 302-307, in the order the
\* loops make them: for date in dates, for meal_type in meal_types, for loc in
\* filtered_locations; d, m and l are the passes the loops are at.
RECURSIVE Triples(_, _, _, _, _, _)
Triples(dates, meal_types, locs, d, m, l) ==
    IF d > Len(dates) THEN <<>>
    ELSE IF m > Len(meal_types) THEN Triples(dates, meal_types, locs, d + 1, 1, 1)
    ELSE IF l > Len(locs) THEN Triples(dates, meal_types, locs, d, m + 1, 1)
    ELSE << [date |-> dates[d], meal_type |-> meal_types[m], loc |-> locs[l]] >>
            \o Triples(dates, meal_types, locs, d, m, l + 1)

\* menu_id = f"{date_str}-{meal_cap}"
MenuId(date, meal_type) == Strftime(date) \o <<"-">> \o Capitalize(meal_type)

\* The names and database ids of the dining locations the upstream lists.
LocationNames ==
    << <<"F", "o", "r", "b", "e", "s">>, <<"W", "i", "l", "c", "o", "x">> >>

LocationDbids == << <<"3">>, <<"5">> >>

\* <location><name>...</name><dbid>...</dbid></location>
LocationElement(i) ==
    Element(TagLocation, <<>>, PyNone,
            << Element(TagName, <<>>, PyStr(LocationNames[i]), <<>>),
               Element(TagDbid, <<>>, PyStr(LocationDbids[i]), <<>>) >>)

\* How many <location> elements each well-formed body holds.
LocationCount(xml_str) ==
    CASE xml_str = "none.xml" -> 0
      [] xml_str = "other.xml" -> 1
      [] OTHER -> 2

\* ET.fromstring(xml_str) of a well-formed body: <locations> with its
\* <location> children.
Document(xml_str) ==
    Element(TagLocations, <<>>, PyNone, [i \in 1..LocationCount(xml_str) |-> LocationElement(i)])

\* The dict _parse_xml returns for a well-formed body.
ParsedLocations(xml_str) == XmlToDict(RemoveXmlNamespaceOf(Document(xml_str)))

\* params of get_locations
LocationsParams == [categoryId |-> PyStr(<<"2">>)]

\* params of execute_queries: {"categoryId": category_ids}
CategoryParams(queries_) ==
    [categoryId |-> QueryGet(queries_, "category_ids", PyList(<< <<"2">> >>))]

\* get_events: params = {"placeID": place_id}
EventsParams(place_id) == [placeID |-> place_id]

DefaultPlace == PyStr(<<"1", "0", "0", "7">>)

\* The arguments of a get_menu call.
MenuArgs(location_id, menu_id) == [location_id |-> location_id, menu_id |-> menu_id]

\* get_menu: params = {"locationID": location_id, "menuID": menu_id}
MenuParams(args) == [locationID |-> args.location_id, menuID |-> args.menu_id]

\* The arguments a caller other than execute_queries gives get_menu.
SomeMenu ==
    MenuArgs(PyStr(<<"3">>),
             PyStr(<<"2", "0", "2", "4", "-", "0", "3", "-", "0", "9", "-", "L", "u", "n", "c", "h">>))

\* logger.error(...) of execute_queries: which handler logged, and the
\* class of what it caught.
Report(handler, class) == Event("logger.error", "execute_queries", handler, class)

\* An except clause of execute_queries that logs and raises again.
ExceptExceptionReraising(handler, class) ==
    [calls |-> << Report(handler, class) >>, outcome |-> Exception(class, PyNone)]

\* `except Exception as e:` of execute_queries (lines 314-316, 324-326 and
\* 328-330): the error is logged and the function goes on, to its end where
\* it returns None.
ExceptException(handler, class) ==
    [calls |-> << Report(handler, class) >>, outcome |-> Returns("None")]

\* The arguments of the get_menu call of one pass of the loops.
PassArgs(pass) ==
    MenuArgs(DictGet(pass.loc, TagDbid, UnknownDbid),
             PyStr(MenuId(pass.date, pass.meal_type)))

\* What get_menu raises, if anything, for the way its request ended and the
\* body it received.
MenuFailure(result, body) ==
    IF result # "ok" THEN "RequestException"
    ELSE IF DecodeOutcome(body).type = "exception" THEN "DecodeError"
    ELSE "none"

\* What get_events raises, if anything.
EventsFailure(result, body) ==
    IF result # "ok" THEN "RequestException"
    ELSE IF ParseIcalOutcome(body).type = "exception" THEN ParseIcalOutcome(body).class
    ELSE "none"

\* meal_types of queries without the key: ["Dinner"]
DefaultMeal == <<"D", "i", "n", "n", "e", "r">>

\* One step of the running operation.
ClientStep(calls, nextpc, newlocals, result) ==
    /\ trace' = trace \o calls
    /\ cpc' = nextpc
    /\ locals' = newlocals
    /\ outcome' = result
    /\ UNCHANGED <<ACCESS_TOKEN, posts, op, ops, scraperVars, xmlVars, icalVars, recordVars, promptVars>>

\* StudentApp.__init__ of one client object: ACCESS_TOKEN from the
\* environment, then _refresh_token.
InitStudentApp(client, nextpc) ==
    \E result \in TokenResults :
        \A refreshed \in {RefreshToken(result, posts["dining"] + posts["schemas"] + 1)} :
            /\ ACCESS_TOKEN' = [ACCESS_TOKEN EXCEPT ![client] = refreshed.token]
            /\ posts' = [posts EXCEPT ![client] = @ + 1]
            /\ trace' = Append(trace, Event("POST", client, REFRESH_TOKEN_URL, result))
            /\ IF refreshed.raised = PyNone
               THEN cpc' = nextpc /\ outcome' = IF nextpc = "done" THEN Returns("Dining") ELSE outcome
               ELSE cpc' = "failed" /\ outcome' = refreshed.raised
            /\ UNCHANGED <<op, locals, ops, scraperVars, xmlVars, icalVars, recordVars, promptVars>>

\* Dining.__init__: super().__init__()
InitDining ==
    /\ op = "Dining"
    /\ cpc = "init_dining"
    /\ InitStudentApp("dining", "init_schemas")

\* Dining.__init__: self.schemas = Schemas()
InitSchemas ==
    /\ op = "Dining"
    /\ cpc = "init_schemas"
    /\ InitStudentApp("schemas", "done")

\* get_menu calls that raise in one run of execute_queries at most.
MaxFailures == 1

\* Operations started on one client at most.
MaxOps == 2

Operations == {"get_locations", "get_events", "get_menu", "execute_queries", "get_html"}

FirstStep ==
    [get_locations |-> "make_request", get_events |-> "make_request",
     get_menu |-> "make_request", execute_queries |-> "make_request",
     get_html |-> "get"]

\* The links get_html is called with: None, "" and a URL.
Links == {PyNone, PyStr(<<>>), PyStr(<<"h", "t", "t", "p", "s", ":", "/", "/", "m">>)}

\* datetime.today().date() on the day of the run.
Todays == {Date(2024, 3, 9)}

\* The values get_user_queries can give each key of queries.
MealTypeLists == { << <<"l", "u", "n", "c", "h">>, <<"d", "i", "n", "n", "e", "r">> >> }

SearchTermLists == { << <<"F", "O", "R">>, <<"z", "z">> >>, << <<"z", "z">> >> }

DateLists == { << Date(2024, 12, 31), Date(2025, 1, 1) >> }

CategoryIdLists == { << <<"2">>, <<"3">> >> }

\* The dicts get_user_queries returns that execute_queries is run with: each
\* key present or not.
Queries ==
    { QueriesDict(m, l, d, c, f) :
        m \in {PyList(x) : x \in MealTypeLists} \cup {Missing},
        l \in {PyList(x) : x \in SearchTermLists} \cup {Missing},
        d \in {PyList(x) : x \in DateLists} \cup {Missing},
        c \in {PyList(x) : x \in CategoryIdLists} \cup {Missing},
        f \in {PyTrue, Missing} }

\* A caller starts an operation on the constructed client.
Call ==
    /\ cpc = "done"
    /\ ops < MaxOps
    /\ \E o \in Operations, queries_ \in Queries, today \in Todays, link \in Links :
          /\ o # "execute_queries" => queries_ = NoQueries
          /\ o # "get_html" => link = PyNone
          /\ op' = o
          /\ cpc' = FirstStep[o]
          /\ locals' = Locals("", "", queries_, today, <<>>, 0, link)
    /\ trace' = <<>>
    /\ outcome' = PyNone
    /\ ops' = ops + 1
    /\ UNCHANGED <<ACCESS_TOKEN, posts, scraperVars, xmlVars, icalVars, recordVars, promptVars>>

\* get_locations: response = self._make_request(self.DINING_LOCATIONS, ...)
GetLocationsRequest ==
    /\ op = "get_locations"
    /\ cpc = "make_request"
    /\ \E result \in RequestResults, body \in XmlPayloads :
          IF result = "ok"
          THEN ClientStep(MakeRequestCalls("dining", DINING_LOCATIONS, LocationsParams, result),
                          "get_dining_xsd", [locals EXCEPT !.response = body], outcome)
          ELSE ClientStep(MakeRequestCalls("dining", DINING_LOCATIONS, LocationsParams, result),
                          "done", locals, MakeRequestOutcome(result, body))

\* A get_locations that keeps the schema of the first call on the client.
GetLocationsSchemaCached ==
    /\ op = "get_locations"
    /\ cpc = "get_dining_xsd"
    /\ IF ops > 1
       THEN ClientStep(<<>>, "validate_xml", [locals EXCEPT !.schema = "dining.xsd"], outcome)
       ELSE \E result \in RequestResults, body \in XsdPayloads :
               IF result = "ok"
               THEN ClientStep(MakeRequestCalls("schemas", DINING_XSD, PyNone, result),
                               "validate_xml", [locals EXCEPT !.schema = body], outcome)
               ELSE ClientStep(MakeRequestCalls("schemas", DINING_XSD, PyNone, result),
                               "done", locals, MakeRequestOutcome(result, body))

\* get_locations: schema = self.schemas.get_dining_xsd()
GetLocationsSchema ==
    /\ op = "get_locations"
    /\ cpc = "get_dining_xsd"
    /\ \E result \in RequestResults, body \in XsdPayloads :
          IF result = "ok"
          THEN ClientStep(MakeRequestCalls("schemas", DINING_XSD, PyNone, result),
                          "validate_xml", [locals EXCEPT !.schema = body], outcome)
          ELSE ClientStep(MakeRequestCalls("schemas", DINING_XSD, PyNone, result),
                          "done", locals, MakeRequestOutcome(result, body))

\* get_locations: if not self.validate_xml(response, schema): raise ValueError
GetLocationsValidate ==
    /\ op = "get_locations"
    /\ cpc = "validate_xml"
    /\ \A result \in {ValidateXml(locals.response, locals.schema)} :
          ClientStep(<< Event("validate_xml", "dining", locals.response, result) >>,
                     AfterValidate(result), locals,
                     IF result = "True" THEN outcome
                     ELSE IF result = "False" THEN Exception("ValueError", PyNone)
                     ELSE Exception(result, PyNone))

\* get_locations: return self._parse_xml(response)
GetLocationsParse ==
    /\ op = "get_locations"
    /\ cpc = "_parse_xml"
    /\ ClientStep(<< Event("_parse_xml", "dining", locals.response, "called") >>,
                  "done", locals, ParseXmlOutcome(locals.response))

\* get_events: response = self._make_request(self.DINING_EVENTS, ..., fmt="ical")
GetEventsRequest ==
    /\ op = "get_events"
    /\ cpc = "make_request"
    /\ \E result \in RequestResults, body \in IcalPayloads :
          IF result = "ok"
          THEN ClientStep(MakeRequestCalls("dining", DINING_EVENTS, EventsParams(DefaultPlace), result),
                          "_parse_ical", [locals EXCEPT !.response = body], outcome)
          ELSE ClientStep(MakeRequestCalls("dining", DINING_EVENTS, EventsParams(DefaultPlace), result),
                          "done", locals, MakeRequestOutcome(result, body))

\* get_events: return self._parse_ical(response)
GetEventsParse ==
    /\ op = "get_events"
    /\ cpc = "_parse_ical"
    /\ ClientStep(<< Event("_parse_ical", "dining", locals.response, "called") >>,
                  "done", locals, ParseIcalOutcome(locals.response))

\* get_menu: response = self._make_request(self.DINING_MENU, params=params)
GetMenuRequest ==
    /\ op = "get_menu"
    /\ cpc = "make_request"
    /\ \E result \in RequestResults, body \in JsonPayloads :
          IF result = "ok"
          THEN ClientStep(MakeRequestCalls("dining", DINING_MENU, MenuParams(SomeMenu), result),
                          "decode", [locals EXCEPT !.response = body], outcome)
          ELSE ClientStep(MakeRequestCalls("dining", DINING_MENU, MenuParams(SomeMenu), result),
                          "done", locals, MakeRequestOutcome(result, body))

\* get_menu: response = msj.decode(response); return response
GetMenuDecode ==
    /\ op = "get_menu"
    /\ cpc = "decode"
    /\ ClientStep(<< Event("msj.decode", "dining", locals.response, "called") >>,
                  "done", locals, DecodeOutcome(locals.response))

\* execute_queries: locations_response = dining_api._make_request(...); an
\* exception ends in the outer handler, which logs and returns.
ExecuteRequest ==
    /\ op = "execute_queries"
    /\ cpc = "make_request"
    /\ \E result \in RequestResults, body \in XmlPayloads :
          IF result = "ok"
          THEN ClientStep(MakeRequestCalls("dining", DINING_LOCATIONS,
                                           CategoryParams(locals.queries), result),
                          "get_dining_xsd", [locals EXCEPT !.response = body], outcome)
          ELSE ClientStep(MakeRequestCalls("dining", DINING_LOCATIONS,
                                           CategoryParams(locals.queries), result)
                            \o ExceptException("outer", "RequestException").calls,
                          "done", locals, ExceptException("outer", "RequestException").outcome)

\* execute_queries: schema = dining_api.schemas.get_dining_xsd()
ExecuteSchema ==
    /\ op = "execute_queries"
    /\ cpc = "get_dining_xsd"
    /\ \E result \in RequestResults, body \in XsdPayloads :
          IF result = "ok"
          THEN ClientStep(MakeRequestCalls("schemas", DINING_XSD, PyNone, result),
                          "validate_xml", [locals EXCEPT !.schema = body], outcome)
          ELSE ClientStep(MakeRequestCalls("schemas", DINING_XSD, PyNone, result)
                            \o ExceptException("outer", "RequestException").calls,
                          "done", locals, ExceptException("outer", "RequestException").outcome)

\* execute_queries: if not dining_api.validate_xml(...): return
ExecuteValidate ==
    /\ op = "execute_queries"
    /\ cpc = "validate_xml"
    /\ \A result \in {ValidateXml(locals.response, locals.schema)} :
          ClientStep(<< Event("validate_xml", "dining", locals.response, result) >>
                        \o (IF result \in {"True", "False"} THEN <<>>
                            ELSE ExceptException("outer", result).calls),
                     AfterValidate(result), locals,
                     IF result = "True" THEN outcome
                     ELSE IF result = "False" THEN Returns("None")
                     ELSE ExceptException("outer", result).outcome)

\* execute_queries, lines 284-300: all_locations, the filter,
\* display_locations, dates and meal_types; what is left is the passes of
\* the loops.
ExecuteParse ==
    /\ op = "execute_queries"
    /\ cpc = "_parse_xml"
    /\ \A selected \in {SelectLocations(ParsedLocations(locals.response), locals.queries)} :
       \A dates \in {QueryGet(locals.queries, "dates", PyList(<< locals.today >>))} :
       \A meal_types \in {QueryGet(locals.queries, "meal_types", PyList(<< DefaultMeal >>))} :
          IF ParseXmlOutcome(locals.response).type = "exception"
          THEN ClientStep(<< Event("_parse_xml", "dining", locals.response, "called") >>
                            \o ExceptException("outer", "ValueError").calls,
                          "done", locals, ExceptException("outer", "ValueError").outcome)
          ELSE IF IsException(selected)
          THEN ClientStep(<< Event("_parse_xml", "dining", locals.response, "called") >>
                            \o ExceptException("outer", selected.class).calls,
                          "done", locals, ExceptException("outer", selected.class).outcome)
          ELSE IF selected.type = "return"
          THEN ClientStep(<< Event("_parse_xml", "dining", locals.response, "called") >>,
                          "done", locals, selected)
          ELSE ClientStep(<< Event("_parse_xml", "dining", locals.response, "called") >>,
                          "menus",
                          [locals EXCEPT !.pending =
                              Triples(dates.items, meal_types.items, Iter(selected), 1, 1, 1)],
                          outcome)

\* execute_queries: one pass of the loops over dates, meal types and
\* locations: get_menu in a try whose handler logs and goes on.
ExecuteMenu ==
    /\ op = "execute_queries"
    /\ cpc = "menus"
    /\ locals.pending # <<>>
    /\ \E result \in RequestResults, body \in JsonPayloads :
       \A raised \in {MenuFailure(result, body)} :
          /\ raised # "none" => locals.failures < MaxFailures
          /\ ClientStep(<< Event("get_menu", "dining", PassArgs(locals.pending[1]), raised) >>
                          \o MakeRequestCalls("dining", DINING_MENU,
                                              MenuParams(PassArgs(locals.pending[1])), result)
                          \o (IF result = "ok"
                              THEN << Event("msj.decode", "dining", body, "called") >>
                              ELSE <<>>)
                          \o (IF raised # "none"
                              THEN ExceptException("menu", raised).calls
                              ELSE <<>>),
                        "menus",
                        [locals EXCEPT !.pending = Tail(@),
                                       !.failures = IF raised # "none" THEN @ + 1 ELSE @],
                        outcome)

\* execute_queries: the loops are over; without fetch_events the function
\* returns.
ExecuteMenusDone ==
    /\ op = "execute_queries"
    /\ cpc = "menus"
    /\ locals.pending = <<>>
    /\ IF Truthy(QueryGet(locals.queries, "fetch_events", PyNone))
       THEN ClientStep(<<>>, "events", locals, outcome)
       ELSE ClientStep(<<>>, "done", locals, Returns("None"))

\* execute_queries: events = dining_api.get_events(place_id="1007") in a try
\* whose handler logs; then the function returns.
ExecuteEvents ==
    /\ op = "execute_queries"
    /\ cpc = "events"
    /\ \E result \in RequestResults, body \in IcalPayloads :
       \A raised \in {EventsFailure(result, body)} :
          ClientStep(<< Event("get_events", "dining", DefaultPlace, raised) >>
                        \o MakeRequestCalls("dining", DINING_EVENTS,
                                            EventsParams(DefaultPlace), result)
                        \o (IF result = "ok"
                            THEN << Event("_parse_ical", "dining", body, "called") >>
                            ELSE <<>>)
                        \o (IF raised # "none"
                            THEN ExceptException("events", raised).calls
                            ELSE <<>>),
                     "done", locals,
                     IF raised # "none" THEN ExceptException("events", raised).outcome
                     ELSE Returns("None"))

\* How the GET of get_html can end.
HtmlResults == {"ok", "ConnectionError", "Timeout", "HTTPError"}

\* A get_html whose handlers re-raise.
GetHtmlOutcomeRaising(result, parses_ok) ==
    IF result # "ok" THEN Exception("RequestException", Exception(result, PyNone))
    ELSE IF ~parses_ok THEN Exception("Exception", PyNone)
    ELSE Returns("soup")

\* What get_html returns for a link it requests: the soup after a response
\* with a success status that BeautifulSoup parses, None from both handlers.
GetHtmlOutcome(result, parses_ok) ==
    IF result = "ok" /\ parses_ok THEN Returns("soup") ELSE Returns("None")

\* Scraper.get_html(link)
GetHtml ==
    /\ op = "get_html"
    /\ cpc = "get"
    /\ IF locals.link = PyNone \/ locals.link = PyStr(<<>>)
       THEN ClientStep(<<>>, "done", locals, Returns("None"))
       ELSE \E result \in HtmlResults, parses_ok \in BOOLEAN :
               ClientStep(<< Event("GET", "scraper", "link", result) >>
                             \o (IF result = "ok"
                                 THEN << Event("BeautifulSoup", "scraper", "link",
                                               IF parses_ok THEN "ok" ELSE "Exception") >>
                                 ELSE <<>>),
                          "done", locals, GetHtmlOutcome(result, parses_ok))

ClientNext ==
    \/ InitDining
    \/ InitSchemas
    \/ Call
    \/ GetLocationsRequest
    \/ GetLocationsSchema
    \/ GetLocationsValidate
    \/ GetLocationsParse
    \/ GetEventsRequest
    \/ GetEventsParse
    \/ GetMenuRequest
    \/ GetMenuDecode
    \/ ExecuteRequest
    \/ ExecuteSchema
    \/ ExecuteValidate
    \/ ExecuteParse
    \/ ExecuteMenu
    \/ ExecuteMenusDone
    \/ ExecuteEvents
    \/ GetHtml

InitClient ==
    /\ ACCESS_TOKEN = [c \in Clients |-> PyNone]
    /\ posts = [c \in Clients |-> 0]
    /\ op = "Dining"
    /\ cpc = "init_dining"
    /\ trace = <<>>
    /\ locals = NoLocals
    /\ outcome = PyNone
    /\ ops = 0
    /\ IdleScraper
    /\ IdleXml
    /\ IdleIcal
    /\ IdleRecords
    /\ IdlePrompt

SpecClient == InitClient /\ [][ClientNext]_vars

---------------------------------------------------------------------------
(* Properties of the API client.                                           *)

\* The running operation has finished.
Done == cpc = "done"

\* The positions in the trace of the calls named `call`.
CallsOf(call) == {i \in 1..Len(trace) : trace[i].call = call}

\* C13: in get_locations and execute_queries every _parse_xml call is
\* preceded by a validate_xml call on the same payload that returned True;
\* a validate_xml that returned False is the last call the operation makes
\* (no decoding, no menu request, no events request after it), and the
\* operation then has raised ValueError (get_locations) or returned
\* (execute_queries).
C13_ValidationGatesDecoding ==
    op \in {"get_locations", "execute_queries"} =>
        /\ \A i \in CallsOf("_parse_xml") :
              \E j \in CallsOf("validate_xml") :
                  /\ j < i
                  /\ trace[j].target = trace[i].target
                  /\ trace[j].result = "True"
        /\ \A j \in CallsOf("validate_xml") :
              trace[j].result = "False" =>
                  /\ j = Len(trace)
                  /\ Done
                  /\ outcome = IF op = "get_locations"
                               THEN Exception("ValueError", PyNone)
                               ELSE Returns("None")

\* get_locations on a payload that does not validate: two requests, the
\* validation, ValueError.
C13_Witness ==
    /\ op = "get_locations"
    /\ Done
    /\ Len(trace) = 3
    /\ trace[3] = Event("validate_xml", "dining", "invalid.xml", "False")
    /\ outcome = Exception("ValueError", PyNone)

\* execute_queries on a payload that validates: decoded after validation,
\* then a menu request.
DecodedAfterValidation ==
    /\ op = "execute_queries"
    /\ Len(trace) >= 5
    /\ trace[3] = Event("validate_xml", "dining", "valid.xml", "True")
    /\ trace[4] = Event("_parse_xml", "dining", "valid.xml", "called")
    /\ trace[5].call = "get_menu"
    /\ trace[6].target = DINING_MENU

\* C14 as claimed: every call of validate_xml returns True or False to its
\* caller.
C14_ValidateReturnsBoolean ==
    \A i \in CallsOf("validate_xml") : trace[i].result \in {"True", "False"}

\* What validate_xml does return: True for a payload that validates, False
\* for one that does not, against a schema that is one.
ValidateReturnsBooleanForSchema ==
    \A i \in CallsOf("validate_xml") :
        locals.schema = "dining.xsd" =>
            /\ trace[i].target \in {"valid.xml", "other.xml"} => trace[i].result = "True"
            /\ trace[i].target = "invalid.xml" => trace[i].result = "False"

\* The XSD the upstream served is no schema: validate_xml raises, and
\* get_locations with it.
C14_Witness ==
    /\ op = "get_locations"
    /\ Done
    /\ locals.schema = "broken.xsd"
    /\ trace[Len(trace)] = Event("validate_xml", "dining", locals.response, "XMLSchemaParseError")
    /\ outcome = Exception("XMLSchemaParseError", PyNone)

\* Dining() has returned.
Constructed == op # "Dining" \/ Done

\* C15: each client object issues one token POST, in its constructor, and
\* never another: a failed exchange ends construction with an exception,
\* and from the moment Dining() has returned no operation, succeeding or
\* failing, issues a POST or changes ACCESS_TOKEN.
C15_TokenObtainedOnce ==
    /\ \A c \in Clients : posts[c] <= 1
    /\ \A i \in CallsOf("POST") :
          /\ op = "Dining"
          /\ trace[i].result # "ok" =>
                /\ i = Len(trace)
                /\ cpc = "failed"
                /\ outcome.type = "exception"
    /\ cpc = "failed" => outcome.type = "exception" /\ trace[Len(trace)].result # "ok"
    /\ Constructed =>
          /\ posts = [c \in Clients |-> 1]
          /\ ACCESS_TOKEN = [c \in Clients |-> IF c = "dining" THEN Token(1) ELSE Token(2)]

\* The last operation the client is used for has failed at its request, and
\* the tokens are those of the constructor.
C15_Witness ==
    /\ ops = MaxOps
    /\ op = "get_menu"
    /\ Done
    /\ outcome = Exception("RequestException", Exception("HTTPError", PyNone))
    /\ ACCESS_TOKEN["dining"] = Token(1)
    /\ posts["dining"] = 1

\* The token exchange of the schemas client has failed: Dining() raises.
ConstructionFails ==
    /\ op = "Dining"
    /\ cpc = "failed"
    /\ posts = [c \in Clients |-> 1]
    /\ outcome = Exception("RequestException", Exception("ConnectionError", PyNone))

\* The GETs of the trace that went to `endpoint`.
GetsTo(endpoint) == {i \in CallsOf("GET") : trace[i].target = endpoint}

DecodeFailurePropagates ==
    /\ op = "get_menu"
    /\ Done
    /\ Len(trace) = 2
    /\ trace[2].target = "broken.json"
    /\ outcome = Exception("DecodeError", PyNone)

\* C20: get_html never raises; for None and for "" it returns None without
\* a request; for a link it issues one GET and returns the parsed document
\* exactly when the response had a success status and was parsed, and None
\* after a failed request, a timeout, an error status or a failed parse.
C20_GetHtmlNeverRaises ==
    (op = "get_html" /\ Done) =>
        /\ outcome.type = "return"
        /\ locals.link \in {PyNone, PyStr(<<>>)} => trace = <<>> /\ outcome = Returns("None")
        /\ locals.link \notin {PyNone, PyStr(<<>>)} =>
              /\ Cardinality(CallsOf("GET")) = 1
              /\ trace[1].call = "GET"
              /\ outcome = Returns("soup") <=>
                    (/\ trace[1].result = "ok"
                     /\ Len(trace) = 2
                     /\ trace[2] = Event("BeautifulSoup", "scraper", "link", "ok"))
              /\ outcome # Returns("soup") => outcome = Returns("None")

\* The request timed out: None.
C20_Witness ==
    /\ op = "get_html"
    /\ Done
    /\ trace = << Event("GET", "scraper", "link", "Timeout") >>
    /\ outcome = Returns("None")

\* get_html(""): None and no request.
NoLinkNoRequest ==
    /\ op = "get_html"
    /\ Done
    /\ locals.link = PyStr(<<>>)
    /\ trace = <<>>
    /\ outcome = Returns("None")

---------------------------------------------------------------------------
(* Dining.get_events over StudentApp._parse_ical.                          *)

\* _parse_ical run on a feed, or the client run against the upstream.
InitEvents == InitIcal \/ InitClient

EventsNext == IcalNext \/ ClientNext

SpecEvents == InitEvents /\ [][EventsNext]_vars

\* A VEVENT of the feed has no DTSTART or no DTEND.
Undated(feed) ==
    \E i \in 1..Len(VEventsOf(feed.cal)) : ~DatesPresent(VEventsOf(feed.cal)[i])

\* C30: _parse_ical run on a calendar with a VEVENT that has no DTSTART or no
\* DTEND ends by raising AttributeError and hands over no result, whatever
\* events it captured before; on every other calendar it returns one entry
\* per VEVENT, also for a VEVENT without SUMMARY, UID or DESCRIPTION; and
\* get_events ends with the exception _parse_ical raised for the feed it was
\* served, and returns for a feed without such a VEVENT.
C30_AllOrNothing ==
    /\ (ipc \in {"returned", "raised"} /\ Parsable(ical)) =>
          IF Undated(ical)
          THEN /\ ipc = "raised"
               /\ icalResult = Exception("AttributeError", PyNone)
          ELSE /\ ipc = "returned"
               /\ icalResult.type = "dict"
               /\ Len(icalResult.map.events.items) = Len(VEventsOf(ical.cal))
    /\ ipc \in {"returned", "raised"} => icalResult = ParseIcal(ical)
    /\ (op = "get_events" /\ Done) =>
          \A i \in CallsOf("_parse_ical") :
              \A feed \in {Feed(trace[i].target)} :
                  Parsable(feed) =>
                      IF Undated(feed)
                      THEN outcome = Exception("AttributeError", PyNone)
                      ELSE outcome.type = "return"

\* A VEVENT without DTSTART after a VEVENT that has only its dates: the one
\* event was captured, and the call raised without a result.
C30_Witness ==
    /\ ipc = "raised"
    /\ Parsable(ical)
    /\ ical.cal.subcomponents = <<EventBare, EventNoStart>>
    /\ Len(events) = 1
    /\ events[1].map.summary = PyNone
    /\ icalResult.type = "exception"

\* get_events served the feed whose second VEVENT has no DTEND: the
\* AttributeError reaches the caller.
GetEventsPropagates ==
    /\ op = "get_events"
    /\ Done
    /\ Len(trace) = 2
    /\ trace[2] = Event("_parse_ical", "dining", "undated.ics", "called")
    /\ outcome = Exception("AttributeError", PyNone)


---------------------------------------------------------------------------
(* The order of the calls of get_locations.                                *)

\* C28: every call of get_locations makes its calls in one order: the GET of
\* /dining/locations with categoryId=2 on the Dining client, then, only if
\* that request did not raise, the GET of /dining/xsd on the Schemas client,
\* then validate_xml on the two bodies, then, only after True, _parse_xml;
\* a call that went past the locations request has fetched the schema
\* itself, whatever calls the client served before.
C28_FixedOrder ==
    op = "get_locations" =>
        /\ Len(trace) <= 4
        /\ cpc # "make_request" => Len(trace) >= 1
        /\ Len(trace) >= 1 =>
              /\ trace[1].call = "GET"
              /\ trace[1].client = "dining"
              /\ trace[1].target = DINING_LOCATIONS
              /\ trace[1].params = [categoryId |-> PyStr(<<"2">>)]
        /\ (Len(trace) >= 1 /\ trace[1].result # "ok") => (Done /\ Len(trace) = 1)
        /\ (Len(trace) >= 1 /\ trace[1].result = "ok" /\ cpc # "get_dining_xsd") =>
              /\ Len(trace) >= 2
              /\ trace[2].call = "GET"
              /\ trace[2].client = "schemas"
              /\ trace[2].target = DINING_XSD
        /\ Len(trace) >= 3 =>
              /\ trace[2].result = "ok"
              /\ trace[3].call = "validate_xml"
              /\ trace[3].target = locals.response
        /\ Len(trace) = 4 =>
              /\ trace[3].result = "True"
              /\ trace[4].call = "_parse_xml"
              /\ trace[4].target = locals.response
        /\ (Done /\ outcome.type = "return") => Len(trace) = 4

\* The second call on a client returns the decoded locations after its own
\* two requests.
C28_Witness ==
    /\ op = "get_locations"
    /\ ops = 2
    /\ Done
    /\ outcome = Returns("valid.xml")
    /\ Len(trace) = 4
    /\ trace[2] = Request("schemas", DINING_XSD, PyNone, "ok")

\* The locations request of a second call raised: no schema request.
SchemaNotFetchedAfterFailure ==
    /\ op = "get_locations"
    /\ ops = 2
    /\ Done
    /\ trace = << Request("dining", DINING_LOCATIONS, LocationsParams, "HTTPError") >>
    /\ outcome.type = "exception"

---------------------------------------------------------------------------
(* The menu and events requests of execute_queries.                        *)

\* The locations the upstream listed in a body, in document order, each a
\* dict of its name and dbid.
UpstreamLocations(xml_str) ==
    [i \in 1..LocationCount(xml_str) |->
        PyDict((TagName :> PyStr(LocationNames[i])) @@ (TagDbid :> PyStr(LocationDbids[i])))]

\* The locations of a body the queries select: all of them without search
\* terms, else those whose name holds one of the terms, case ignored.
SelectedLocations(xml_str, queries_) ==
    IF HasKey(queries_, "locations")
    THEN LET Kept(loc) == Matches(loc, queries_["locations"].items)
         IN  SelectSeq(UpstreamLocations(xml_str), Kept)
    ELSE UpstreamLocations(xml_str)

\* The arguments of the get_menu calls one run is to make, in order: dates
\* outermost, meal types next, selected locations innermost.
ExpectedMenus(xml_str, queries_, today) ==
    LET passes == Triples(QueryGet(queries_, "dates", PyList(<< today >>)).items,
                          QueryGet(queries_, "meal_types", PyList(<< DefaultMeal >>)).items,
                          SelectedLocations(xml_str, queries_), 1, 1, 1)
    IN  [i \in 1..Len(passes) |-> PassArgs(passes[i])]

\* The positions of the calls named `call`, in order.
RECURSIVE CallSeq(_, _)
CallSeq(call, i) ==
    IF i > Len(trace) THEN <<>>
    ELSE (IF trace[i].call = call THEN << i >> ELSE <<>>) \o CallSeq(call, i + 1)

\* The arguments of the get_menu calls made so far, in order.
MenusCalled == [k \in 1..Len(CallSeq("get_menu", 1)) |-> trace[CallSeq("get_menu", 1)[k]].target]

\* The response of the running execute_queries passed validation.
Validated ==
    \E j \in CallsOf("validate_xml") : trace[j].result = "True"

\* The get_menu calls made so far are the first of the expected ones, and a
\* call that raised is followed by its report.
MenusInOrder ==
    /\ Len(MenusCalled) <= Len(ExpectedMenus(locals.response, locals.queries, locals.today))
    /\ \A k \in 1..Len(MenusCalled) :
          MenusCalled[k] = ExpectedMenus(locals.response, locals.queries, locals.today)[k]
    /\ \A i \in CallsOf("get_menu") :
          trace[i].result # "none" =>
              \E j \in CallsOf("logger.error") :
                  /\ j > i
                  /\ trace[j] = Report("menu", trace[i].result)
                  /\ \A k \in CallsOf("get_menu") : k > i => k > j

\* C21 as claimed: for a validated response with N >= 1 locations,
\* execute_queries calls get_menu once for every triple of a date, a meal
\* type and a selected location, dates outermost and locations innermost,
\* with menu_id <YYYY-MM-DD>-<Capitalized meal type>; a call that raises is
\* reported and the calls for the remaining triples are still made.
C21_MenuPerTriple ==
    (op = "execute_queries" /\ Validated /\ LocationCount(locals.response) >= 1) =>
        /\ MenusInOrder
        /\ Done => MenusCalled = ExpectedMenus(locals.response, locals.queries, locals.today)

\* A validated response with one location and no search terms: the run is
\* over in the outer handler, without a get_menu call.
C21_Witness ==
    /\ op = "execute_queries"
    /\ Done
    /\ locals.response = "other.xml"
    /\ ~HasKey(locals.queries, "locations")
    /\ Validated
    /\ trace[Len(trace)] = Report("outer", "AttributeError")
    /\ CallsOf("get_menu") = {}
    /\ Len(ExpectedMenus(locals.response, locals.queries, locals.today)) >= 1

\* What C21 says holds of the responses with two or more locations.
MenuPerTripleOfLists ==
    (op = "execute_queries" /\ Validated /\ LocationCount(locals.response) >= 2) =>
        /\ MenusInOrder
        /\ Done => MenusCalled = ExpectedMenus(locals.response, locals.queries, locals.today)

\* Two dates, two meal types and two locations: eight calls, the third of
\* which raised.
EightMenusOneFailed ==
    /\ op = "execute_queries"
    /\ Done
    /\ Len(MenusCalled) = 8
    /\ trace[CallSeq("get_menu", 1)[3]].result = "RequestException"
    /\ MenusCalled[1].menu_id
          = PyStr(<<"2", "0", "2", "4", "-", "1", "2", "-", "3", "1", "-",
                    "L", "u", "n", "c", "h">>)
    /\ MenusCalled[2].location_id = PyStr(<<"5">>)

\* C22: execute_queries returns None whatever its calls do; with search
\* terms that no listed location matches it makes no menu and no events
\* call; get_events is called at most once, only with fetch_events set and
\* only when every pass of the menu loops is over; a get_events that raises
\* is reported and the function returns.
C22_NeverRaises ==
    op = "execute_queries" =>
        /\ outcome.type # "exception"
        /\ Done => outcome = Returns("None")
        /\ (HasKey(locals.queries, "locations")
              /\ SelectedLocations(locals.response, locals.queries) = <<>>) =>
              /\ CallsOf("get_menu") = {}
              /\ CallsOf("get_events") = {}
              /\ GetsTo(DINING_MENU) = {}
              /\ GetsTo(DINING_EVENTS) = {}
        /\ Cardinality(CallsOf("get_events")) <= 1
        /\ Cardinality(GetsTo(DINING_EVENTS)) <= 1
        /\ \A i \in CallsOf("get_events") :
              /\ Truthy(QueryGet(locals.queries, "fetch_events", PyNone))
              /\ \A j \in CallsOf("get_menu") : j < i
              /\ MenusCalled = ExpectedMenus(locals.response, locals.queries, locals.today)
              /\ locals.pending = <<>>
              /\ trace[i].result # "none" =>
                    /\ trace[Len(trace)] = Report("events", trace[i].result)
                    /\ Done

\* Menus were fetched, then the events request failed: reported, None
\* returned.
C22_Witness ==
    /\ op = "execute_queries"
    /\ Done
    /\ outcome = Returns("None")
    /\ Len(MenusCalled) >= 2
    /\ trace[Len(trace)] = Report("events", "RequestException")
    /\ trace[Len(trace) - 1].target = DINING_EVENTS
    /\ trace[Len(trace) - 1].result = "ConnectionError"

\* Search terms that match none of two locations: returned after decoding.
NoMatchReturns ==
    /\ op = "execute_queries"
    /\ Done
    /\ locals.response = "valid.xml"
    /\ HasKey(locals.queries, "locations")
    /\ Truthy(QueryGet(locals.queries, "fetch_events", PyNone))
    /\ SelectedLocations(locals.response, locals.queries) = <<>>
    /\ Len(trace) = 4
    /\ trace[4].call = "_parse_xml"

---------------------------------------------------------------------------
(* tests/dining_api.py: the prompt functions and get_user_queries.  Every  *)
(* action is one pass of the `while True` loop of a prompt function: one   *)
(* line read from input() and what the function does with it.              *)

PyInt(n) == [type |-> "int", value |-> n]

PyBool(b) == [type |-> "bool", value |-> b]

\* A pass of a prompt loop that ends in a print and goes round again.
Retry == [type |-> "retry"]

\* The value of a decimal digit.
DigitValue(c) == (CHOOSE i \in 1..10 : DIGITS[i] = c) - 1

\* The number a string of digits and underscores denotes.
RECURSIVE DigitsValue(_, _)
DigitsValue(s, acc) ==
    IF s = <<>> THEN acc
    ELSE IF Head(s) = "_" THEN DigitsValue(Tail(s), acc)
    ELSE DigitsValue(Tail(s), 10 * acc + DigitValue(Head(s)))

\* int(s) of a str: surrounding whitespace and one sign are allowed, and
\* single underscores between digits; anything else is ValueError.
ParseInt(s) ==
    LET t == Strip(s)
        body == IF t # <<>> /\ t[1] \in {"+", "-"} THEN Tail(t) ELSE t
        wellFormed ==
            /\ body # <<>>
            /\ \A i \in 1..Len(body) :
                  \/ IsDigit(body[i])
                  \/ /\ body[i] = "_"
                     /\ i > 1 /\ i < Len(body)
                     /\ IsDigit(body[i - 1]) /\ IsDigit(body[i + 1])
    IN  IF ~wellFormed THEN Exception("ValueError", PyNone)
        ELSE IF t[1] = "-" THEN PyInt(0 - DigitsValue(body, 0))
        ELSE PyInt(DigitsValue(body, 0))

\* list[i] of Python: from the end for a negative i, IndexError outside.
PyIndex(list, i) ==
    IF 0 <= i /\ i < Len(list) THEN list[i + 1]
    ELSE IF i < 0 /\ 0 - i <= Len(list) THEN list[Len(list) + i + 1]
    ELSE Exception("IndexError", PyNone)

\* A range test that has lost its lower bound.
ChoicePassNoLowerBound(line, choices) ==
    LET selection == ParseInt(line)
    IN  IF IsException(selection) THEN Retry
        ELSE IF selection.value <= Len(choices)
        THEN (IF 0 - Len(choices) <= selection.value - 1
              THEN Returns(PyIndex(choices, selection.value - 1))
              ELSE PyIndex(choices, selection.value - 1))
        ELSE Retry

\* One pass of prompt_user_choice: selection = int(input(...)); a selection
\* in 1..len(choices) returns choices[selection - 1]; any other selection
\* and a ValueError print a message and go round again.
ChoicePass(line, choices) ==
    LET selection == ParseInt(line)
    IN  IF IsException(selection) THEN Retry
        ELSE IF 1 <= selection.value /\ selection.value <= Len(choices)
        THEN Returns(PyIndex(choices, selection.value - 1))
        ELSE Retry

\* One pass of prompt_user_input: the stripped line converted by input_type
\* (str or int), None for an empty line with allow_empty.
InputPass(line, input_type, allow_empty) ==
    LET user_input == Strip(line)
    IN  IF user_input = <<>> /\ allow_empty THEN Returns(PyNone)
        ELSE IF input_type = "str" THEN Returns(PyStr(user_input))
        ELSE IF IsException(ParseInt(user_input)) THEN Retry
        ELSE Returns(ParseInt(user_input))

\* A prompt_yes_no that takes every answer but yes for a no.
YesNoPassDefaultNo(line) ==
    LET response_ == Lower(Strip(line))
    IN  IF response_ \in { <<"y">>, <<"y", "e", "s">> } THEN Returns(PyBool(TRUE))
        ELSE Returns(PyBool(FALSE))

\* One pass of prompt_yes_no: response = input(...).strip().lower()
YesNoPass(line) ==
    LET response_ == Lower(Strip(line))
    IN  IF response_ \in { <<"y">>, <<"y", "e", "s">> } THEN Returns(PyBool(TRUE))
        ELSE IF response_ \in { <<"n">>, <<"n", "o">> } THEN Returns(PyBool(FALSE))
        ELSE Retry

AllDigits(s) == \A i \in 1..Len(s) : IsDigit(s[i])

IsLeap(year) == (year % 4 = 0 /\ year % 100 # 0) \/ year % 400 = 0

DaysInMonth(year, month) ==
    IF month = 2 THEN (IF IsLeap(year) THEN 29 ELSE 28)
    ELSE IF month \in {4, 6, 9, 11} THEN 30
    ELSE 31

\* datetime.strptime(date_str, "%Y-%m-%d").date(): %Y is four digits, %m one
\* or two digits that make 1..12, %d one or two digits that make 1..31; the
\* whole string has to match, and the date has to exist (year 1 at least,
\* the day within the month); everything else is ValueError.
Strptime(date_str) ==
    LET parts == Split(date_str, "-")
        year == DigitsValue(parts[1], 0)
        month == DigitsValue(parts[2], 0)
        day == DigitsValue(parts[3], 0)
    IN  IF Len(parts) # 3 THEN Exception("ValueError", PyNone)
        ELSE IF ~(Len(parts[1]) = 4 /\ AllDigits(parts[1]))
        THEN Exception("ValueError", PyNone)
        ELSE IF \E i \in 2..3 : ~(Len(parts[i]) \in 1..2 /\ AllDigits(parts[i]))
        THEN Exception("ValueError", PyNone)
        ELSE IF ~(month \in 1..12 /\ day \in 1..31)
        THEN Exception("ValueError", PyNone)
        ELSE IF year < 1 \/ day > DaysInMonth(year, month)
        THEN Exception("ValueError", PyNone)
        ELSE Date(year, month, day)

\* Where the test client is: the prompt function that is reading (`at`),
\* for get_user_queries the key it is asking about, and the arguments of a
\* prompt function that was called on its own.
Position(at, key, args) == [at |-> at, key |-> key, args |-> args]

\* Lines one prompt call reads at most before the one it accepts.
MaxReads == 2

\* Entries the user makes for one key of get_user_queries at most.
MaxEntries == 2

\* ["breakfast", "lunch", "brunch", "dinner"]
MEAL_CHOICES ==
    << <<"b", "r", "e", "a", "k", "f", "a", "s", "t">>, <<"l", "u", "n", "c", "h">>,
       <<"b", "r", "u", "n", "c", "h">>, <<"d", "i", "n", "n", "e", "r">> >>

\* The lists prompt_user_choice is called with.
ChoiceLists == { MEAL_CHOICES, << <<"o", "n", "l", "y">> >> }

\* What the user types at prompt_user_choice.
ChoiceLines ==
    { <<"1">>, <<" ", "2", "\n">>, <<"4">>, <<"0">>, <<"5">>, <<"-", "1">>, <<"+", "3">>,
      <<"0", "_", "4">>, <<"1", ".", "0">>, <<"x">>, <<>> }

\* What the user types at prompt_yes_no.
YesNoLines ==
    { <<"y">>, <<" ", "Y", "E", "S", "\n">>, <<"Y", "e", "s">>, <<"n">>, <<"N", "o", " ">>,
      <<"y", "e", "p">>, <<"n", "o", "n">>, <<"0">>, <<>> }

\* What the user types at prompt_user_input.
InputLines == { <<" ", "W", "u", " ">>, <<"7">>, <<" ">>, <<>> }

\* What the user types while get_user_queries runs: at the yes/no
\* questions, at the menu of meal types, and for a location, a date and a
\* category id.
AnswerLines == { <<"y">>, <<"N", "O">>, <<"?">> }

MealLines == { <<"4">>, <<"2">>, <<"9">> }

LocationLines == { <<"F", "O", "R">>, <<" ">> }

DateLines ==
    { <<"2", "0", "2", "4", "-", "0", "2", "-", "2", "9">>,
      <<"2", "0", "2", "3", "-", "0", "2", "-", "2", "9">>,
      <<"2", "0", "2", "4", "-", "1", "-", "5">>,
      <<"2", "4", "-", "1", "-", "5">> }

CategoryLines == { <<"2">>, <<" ", "3">> }

\* The keys of queries in the order get_user_queries asks about them, and
\* the key after each.
KEYS == <<"meal_types", "locations", "dates", "category_ids", "fetch_events">>

\* The position after the block of a key: the question about the next key,
\* or the return.
AfterKey(key) ==
    LET i == CHOOSE i \in 1..Len(KEYS) : KEYS[i] = key
    IN  IF i = Len(KEYS) THEN Position("done", "none", <<>>)
        ELSE Position("ask", KEYS[i + 1], <<>>)

\* What the test client remembers of the answers: the keys answered yes and
\* no, and the entries made for the key asked about last.
Answers(yes, no, key, entered) == [yes |-> yes, no |-> no, key |-> key, entered |-> entered]

NoAnswers == Answers({}, {}, "none", <<>>)

\* The running prompt call read a line it does not accept.
Reprompt(line) ==
    /\ Len(reads) < MaxReads
    /\ reads' = Append(reads, line)
    /\ UNCHANGED <<gpc, queries, items, last, answers>>

\* A caller runs one of the prompt functions on its own.
CallPrompt ==
    /\ gpc.at \in {"idle", "done"}
    /\ \E f \in {"prompt_yes_no", "prompt_user_choice", "prompt_user_input"},
          choices \in ChoiceLists, input_type \in {"str", "int"}, allow_empty \in BOOLEAN :
          gpc' = Position(f, "none",
                          CASE f = "prompt_yes_no" -> <<>>
                            [] f = "prompt_user_choice" -> << choices >>
                            [] f = "prompt_user_input" -> << input_type, allow_empty >>)
    /\ queries' = PyNone
    /\ items' = <<>>
    /\ reads' = <<>>
    /\ last' = PyNone
    /\ answers' = NoAnswers
    /\ UNCHANGED <<scraperVars, xmlVars, icalVars, clientVars, recordVars>>

\* The prompt function called on its own returns: what it read and returned
\* is kept in `last`.
PromptReturns(line, value) ==
    /\ last' = [function |-> gpc.at, args |-> gpc.args, reads |-> Append(reads, line),
                value |-> value]
    /\ gpc' = Position("idle", "none", <<>>)
    /\ reads' = <<>>
    /\ UNCHANGED <<queries, items, answers>>

\* prompt_yes_no(prompt): one pass of the loop
PromptYesNo ==
    /\ gpc.at = "prompt_yes_no"
    /\ \E line \in YesNoLines :
          IF YesNoPass(line) = Retry THEN Reprompt(line)
          ELSE PromptReturns(line, YesNoPass(line).value)
    /\ UNCHANGED <<scraperVars, xmlVars, icalVars, clientVars, recordVars>>

\* prompt_user_choice(prompt, choices): one pass of the loop
PromptUserChoice ==
    /\ gpc.at = "prompt_user_choice"
    /\ \E line \in ChoiceLines :
          IF ChoicePass(line, gpc.args[1]) = Retry THEN Reprompt(line)
          ELSE IF IsException(ChoicePass(line, gpc.args[1]))
          THEN PromptReturns(line, ChoicePass(line, gpc.args[1]))
          ELSE PromptReturns(line, PyStr(ChoicePass(line, gpc.args[1]).value))
    /\ UNCHANGED <<scraperVars, xmlVars, icalVars, clientVars, recordVars>>

\* prompt_user_input(prompt, input_type, allow_empty): one pass of the loop
PromptUserInput ==
    /\ gpc.at = "prompt_user_input"
    /\ \E line \in InputLines :
          IF InputPass(line, gpc.args[1], gpc.args[2]) = Retry THEN Reprompt(line)
          ELSE PromptReturns(line, InputPass(line, gpc.args[1], gpc.args[2]).value)
    /\ UNCHANGED <<scraperVars, xmlVars, icalVars, clientVars, recordVars>>

\* get_user_queries(): queries = {}
GetUserQueries ==
    /\ gpc.at \in {"idle", "done"}
    /\ gpc' = Position("ask", KEYS[1], <<>>)
    /\ queries' = NoQueries
    /\ items' = <<>>
    /\ reads' = <<>>
    /\ last' = PyNone
    /\ answers' = NoAnswers
    /\ UNCHANGED <<scraperVars, xmlVars, icalVars, clientVars, recordVars>>

\* get_user_queries: `if prompt_yes_no("Do you want to ...?"):` of each of
\* the five blocks; yes to fetch_events sets the key to True, yes to another
\* starts its empty list.
AskKey ==
    /\ gpc.at = "ask"
    /\ \E line \in AnswerLines :
          IF YesNoPass(line) = Retry THEN Reprompt(line)
          ELSE /\ reads' = <<>>
               /\ items' = <<>>
               /\ IF YesNoPass(line).value.value
                  THEN IF gpc.key = "fetch_events"
                       THEN /\ answers' = Answers(answers.yes \cup {gpc.key}, answers.no,
                                                  answers.key, answers.entered)
                            /\ queries' = [queries EXCEPT !["fetch_events"] = PyTrue]
                            /\ gpc' = AfterKey(gpc.key)
                       ELSE /\ answers' = Answers(answers.yes \cup {gpc.key}, answers.no,
                                                  gpc.key, <<>>)
                            /\ queries' = queries
                            /\ gpc' = Position("enter", gpc.key, <<>>)
                  ELSE /\ answers' = Answers(answers.yes, answers.no \cup {gpc.key},
                                             answers.key, answers.entered)
                       /\ queries' = queries
                       /\ gpc' = AfterKey(gpc.key)
               /\ last' = last
    /\ UNCHANGED <<scraperVars, xmlVars, icalVars, clientVars, recordVars>>

\* An append that does not look for the value in the list.
AddUniqueAlways(list, value) == Append(list, value)

\* `if x not in xs: xs.append(x)` of the lists of meal types and of
\* category ids
AddUnique(list, value) ==
    IF \E i \in 1..Len(list) : list[i] = value THEN list ELSE Append(list, value)

\* The entry was read: it is counted, and the loop is at `another`, or for
\* a `continue` at the entry prompt again.
Entered(entry, list, at) ==
    /\ items' = list
    /\ answers' = [answers EXCEPT !.entered = Append(@, entry)]
    /\ gpc' = Position(at, gpc.key, <<>>)
    /\ reads' = <<>>
    /\ UNCHANGED <<queries, last>>

\* get_user_queries: meal_type = prompt_user_choice(...), added if new
ChooseMealType ==
    /\ gpc = Position("enter", "meal_types", <<>>)
    /\ Len(answers.entered) < MaxEntries
    /\ \E line \in MealLines :
          IF ChoicePass(line, MEAL_CHOICES) = Retry THEN Reprompt(line)
          ELSE Entered(ChoicePass(line, MEAL_CHOICES).value,
                       AddUnique(items, ChoicePass(line, MEAL_CHOICES).value), "another")
    /\ UNCHANGED <<scraperVars, xmlVars, icalVars, clientVars, recordVars>>

\* get_user_queries: location = prompt_user_input(..., allow_empty=False),
\* appended as it is
EnterLocation ==
    /\ gpc = Position("enter", "locations", <<>>)
    /\ Len(answers.entered) < MaxEntries
    /\ \E line \in LocationLines :
          Entered(InputPass(line, "str", FALSE).value.chars,
                  Append(items, InputPass(line, "str", FALSE).value.chars), "another")
    /\ UNCHANGED <<scraperVars, xmlVars, icalVars, clientVars, recordVars>>

\* get_user_queries: date_str = prompt_user_input(...); the parsed date is
\* appended, a ValueError of strptime prints and continues the loop.
EnterDate ==
    /\ gpc = Position("enter", "dates", <<>>)
    /\ Len(answers.entered) < MaxEntries
    /\ \E line \in DateLines :
       \A date_str \in {InputPass(line, "str", FALSE).value.chars} :
          IF IsException(Strptime(date_str))
          THEN Entered(date_str, items, "enter")
          ELSE Entered(date_str, Append(items, Strptime(date_str)), "another")
    /\ UNCHANGED <<scraperVars, xmlVars, icalVars, clientVars, recordVars>>

\* get_user_queries: category_id = prompt_user_input(..., input_type=str),
\* added if new
EnterCategoryId ==
    /\ gpc = Position("enter", "category_ids", <<>>)
    /\ Len(answers.entered) < MaxEntries
    /\ \E line \in CategoryLines :
          Entered(InputPass(line, "str", FALSE).value.chars,
                  AddUnique(items, InputPass(line, "str", FALSE).value.chars), "another")
    /\ UNCHANGED <<scraperVars, xmlVars, icalVars, clientVars, recordVars>>

\* get_user_queries: `if not prompt_yes_no("Do you want to add another
\* ...?"): break`, and after the loop queries[key] = the list.
AskAnother ==
    /\ gpc.at = "another"
    /\ \E line \in AnswerLines :
          IF YesNoPass(line) = Retry THEN Reprompt(line)
          ELSE /\ reads' = <<>>
               /\ IF YesNoPass(line).value.value
                  THEN /\ gpc' = Position("enter", gpc.key, <<>>)
                       /\ queries' = queries
                  ELSE /\ gpc' = AfterKey(gpc.key)
                       /\ queries' = [queries EXCEPT ![gpc.key] = PyList(items)]
               /\ UNCHANGED <<items, last, answers>>
    /\ UNCHANGED <<scraperVars, xmlVars, icalVars, clientVars, recordVars>>

PromptNext ==
    \/ CallPrompt
    \/ PromptYesNo
    \/ PromptUserChoice
    \/ PromptUserInput
    \/ GetUserQueries
    \/ AskKey
    \/ ChooseMealType
    \/ EnterLocation
    \/ EnterDate
    \/ EnterCategoryId
    \/ AskAnother

InitPrompt ==
    /\ IdleScraper
    /\ IdleXml
    /\ IdleIcal
    /\ IdleClient
    /\ IdleRecords
    /\ IdlePrompt

SpecPrompt == InitPrompt /\ [][PromptNext]_vars

---------------------------------------------------------------------------
(* Properties of the prompt functions and of get_user_queries.             *)

\* The line is an integer k with 1 <= k <= len(choices).
InRange(line, choices) ==
    /\ ~IsException(ParseInt(line))
    /\ ParseInt(line).value \in 1..Len(choices)

\* C24: prompt_user_choice goes on prompting while no line read is an
\* integer in 1..len(choices), without returning or raising; it returns at
\* the first line that is one, k, and the value is choices[k-1], a member of
\* choices.
C24_FirstValidChoice ==
    /\ gpc.at = "prompt_user_choice" =>
          \A i \in 1..Len(reads) : ~InRange(reads[i], gpc.args[1])
    /\ (last # PyNone /\ last.function = "prompt_user_choice") =>
          /\ \A i \in 1..(Len(last.reads) - 1) : ~InRange(last.reads[i], last.args[1])
          /\ InRange(last.reads[Len(last.reads)], last.args[1])
          /\ last.value.type = "str"
          /\ last.value.chars = last.args[1][ParseInt(last.reads[Len(last.reads)]).value]
          /\ \E k \in 1..Len(last.args[1]) : last.value.chars = last.args[1][k]

\* "0", then "x", then " 2\n": two prompts repeated, then the second choice.
C24_Witness ==
    /\ last # PyNone
    /\ last.function = "prompt_user_choice"
    /\ last.args = << MEAL_CHOICES >>
    /\ last.reads = << <<"0">>, <<"x">>, <<" ", "2", "\n">> >>
    /\ last.value = PyStr(<<"l", "u", "n", "c", "h">>)

YesWords == { <<"y">>, <<"y", "e", "s">> }

NoWords == { <<"n">>, <<"n", "o">> }

\* The line, trimmed and lower-cased, is y, yes, n or no.
Decides(line) == Lower(Strip(line)) \in YesWords \cup NoWords

NoAfterReprompt ==
    /\ last # PyNone
    /\ last.function = "prompt_yes_no"
    /\ last.reads = << <<"n", "o", "n">>, <<"N", "o", " ">> >>
    /\ last.value = PyBool(FALSE)

ListKeys == {"meal_types", "locations", "dates", "category_ids"}

KeyIndex(key) == CHOOSE i \in 1..Len(KEYS) : KEYS[i] = key

\* get_user_queries is past the block of the key.
Passed(key) ==
    \/ gpc.at = "done"
    \/ gpc.at \in {"ask", "enter", "another"} /\ KeyIndex(key) < KeyIndex(gpc.key)

NoDuplicates(list) ==
    \A i, j \in 1..Len(list) : i # j => list[i] # list[j]

\* The entries without those that repeat an earlier one.
FirstOccurrences(entries) ==
    LET Indices == {i \in 1..Len(entries) : \A j \in 1..(i - 1) : entries[j] # entries[i]}
        RECURSIVE Collect(_)
        Collect(i) ==
            IF i > Len(entries) THEN <<>>
            ELSE (IF i \in Indices THEN << entries[i] >> ELSE <<>>) \o Collect(i + 1)
    IN  Collect(1)

\* The entry is written as year-month-day: a year of four digits, a month
\* and a day of one or two digits.
WellWritten(entry) ==
    /\ Len(Split(entry, "-")) = 3
    /\ \A i \in 1..3 : Split(entry, "-")[i] # <<>> /\ AllDigits(Split(entry, "-")[i])
    /\ Len(Split(entry, "-")[1]) = 4
    /\ Len(Split(entry, "-")[2]) <= 2
    /\ Len(Split(entry, "-")[3]) <= 2

\* The date a well-written entry names.
EntryDate(entry) ==
    Date(DigitsValue(Split(entry, "-")[1], 0), DigitsValue(Split(entry, "-")[2], 0),
         DigitsValue(Split(entry, "-")[3], 0))

\* The entry is well written and the date it names exists.
ValidEntry(entry) ==
    /\ WellWritten(entry)
    /\ EntryDate(entry).year >= 1
    /\ EntryDate(entry).month \in 1..12
    /\ EntryDate(entry).day \in 1..DaysInMonth(EntryDate(entry).year, EntryDate(entry).month)

\* The dates of the valid entries, in the order of the entries.
RECURSIVE DatesOf(_)
DatesOf(entries) ==
    IF entries = <<>> THEN <<>>
    ELSE (IF ValidEntry(Head(entries)) THEN << EntryDate(Head(entries)) >> ELSE <<>>)
            \o DatesOf(Tail(entries))

\* The list the entries made for a key are to give.
ListOf(key, entries) ==
    CASE key \in {"meal_types", "category_ids"} -> FirstOccurrences(entries)
      [] key = "locations" -> entries
      [] key = "dates" -> DatesOf(entries)

\* C23: queries has a key only for a question answered yes, and has it once
\* the block of the question is passed, so that the mapping returned after
\* five times no is empty; a list in it is not empty; meal_types and
\* category_ids hold no value twice; dates holds the dates of the valid
\* entries and nothing for an invalid one, after which the date is asked
\* for again.
C23_QueriesFromAnswers ==
    gpc.at \in {"ask", "enter", "another", "done"} =>
        /\ \A k \in DOMAIN queries : HasKey(queries, k) => k \in answers.yes
        /\ \A k \in DOMAIN queries :
              Passed(k) => (HasKey(queries, k) <=> k \in answers.yes)
        /\ (gpc.at = "done" /\ answers.yes = {}) => queries = NoQueries
        /\ HasKey(queries, "fetch_events") => queries["fetch_events"] = PyTrue
        /\ \A k \in ListKeys :
              HasKey(queries, k) =>
                  /\ queries[k].type = "list"
                  /\ queries[k].items # <<>>
        /\ \A k \in {"meal_types", "category_ids"} :
              HasKey(queries, k) => NoDuplicates(queries[k].items)
        /\ answers.key \in ListKeys =>
              ListOf(answers.key, answers.entered)
                  = IF HasKey(queries, answers.key)
                    THEN queries[answers.key].items ELSE items
        /\ (gpc.key = "dates" /\ answers.key = "dates" /\ answers.entered # <<>>) =>
              /\ ~ValidEntry(answers.entered[Len(answers.entered)]) => gpc.at = "enter"
              /\ gpc.at = "another" => ValidEntry(answers.entered[Len(answers.entered)])

\* Yes to all five questions, lunch chosen twice: every key is there, and
\* lunch once.
C23_Witness ==
    /\ gpc.at = "done"
    /\ answers.yes = {"meal_types", "locations", "dates", "category_ids", "fetch_events"}
    /\ queries["meal_types"] = PyList(<< <<"l", "u", "n", "c", "h">> >>)
    /\ Len(queries["locations"].items) = 2
    /\ queries["dates"]
          = PyList(<< Date(2024, 1, 5) >>)
    /\ answers.entered = << <<"3">>, <<"3">> >>
    /\ queries["category_ids"] = PyList(<< <<"3">> >>)

\* No to everything: the empty mapping.
NoToEverything ==
    /\ gpc.at = "done"
    /\ answers.no = {"meal_types", "locations", "dates", "category_ids", "fetch_events"}
    /\ queries = NoQueries

\* 2023-02-29 was entered: nothing added, the date is asked for again.
InvalidDateAskedAgain ==
    /\ gpc = Position("enter", "dates", <<>>)
    /\ answers.entered = << <<"2", "0", "2", "3", "-", "0", "2", "-", "2", "9">> >>
    /\ items = <<>>

---------------------------------------------------------------------------
(* scraper.py: the objects behind EMPTY_MENU_SCHEMA and the records that   *)
(* get_info returns.  `heap` holds every dict and list object at its       *)
(* address; a value of a dict or list is a str or the reference to         *)
(* another object, so that two mappings can hold the same nested object.   *)

Ref(addr) == [type |-> "ref", addr |-> addr]

IsRef(value) == value.type = "ref"

\* A dict literal and a list literal make a new object, a str is a value.
IsObject(value) == ~IsLeaf(value) \/ value.type = "list"

\* The paths of keys to the objects of a nested value, <<>> for the value.
RECURSIVE ObjectPaths(_, _)
ObjectPaths(value, prefix) ==
    IF IsLeaf(value) THEN (IF IsObject(value) THEN {prefix} ELSE {})
    ELSE {prefix} \cup UNION {ObjectPaths(value[k], Append(prefix, k)) : k \in DOMAIN value}

\* value[k1]...[kn]
RECURSIVE AtPath(_, _)
AtPath(value, path) ==
    IF path = <<>> THEN value ELSE AtPath(value[Head(path)], Tail(path))

\* The heap after a nested literal was evaluated on an empty heap: one
\* object for each dict and list of the literal, a nested one held by
\* reference; and the address of the outermost.
Store(value) ==
    LET paths == SetToSeq(ObjectPaths(value, <<>>))
        Addr(path) == CHOOSE i \in 1..Len(paths) : paths[i] = path
        Held(inner, path) == IF IsObject(inner) THEN Ref(Addr(path)) ELSE inner
        Object(inner, path) ==
            IF IsLeaf(inner) THEN [type |-> "list", items |-> inner.items]
            ELSE [type |-> "dict",
                  map |-> [k \in DOMAIN inner |-> Held(inner[k], Append(path, k))]]
    IN  [heap |-> [i \in 1..Len(paths) |-> Object(AtPath(value, paths[i]), paths[i])],
         root |-> Addr(<<>>)]

\* The nested value an object of the heap stands for.
RECURSIVE Value(_, _)
Value(h, value) ==
    IF ~IsRef(value) THEN value
    ELSE IF h[value.addr].type = "list"
    THEN PyList([i \in 1..Len(h[value.addr].items) |-> Value(h, h[value.addr].items[i])])
    ELSE [k \in DOMAIN h[value.addr].map |-> Value(h, h[value.addr].map[k])]

\* The addresses an object holds references to.
RefsOf(object) ==
    IF object.type = "list"
    THEN {object.items[i].addr : i \in {j \in 1..Len(object.items) : IsRef(object.items[j])}}
    ELSE {object.map[k].addr : k \in {j \in DOMAIN object.map : IsRef(object.map[j])}}

\* The addresses of the objects reachable from those of `from`.
RECURSIVE Reach(_, _)
Reach(h, from) ==
    LET more == from \cup UNION {RefsOf(h[a]) : a \in from}
    IN  IF more = from THEN from ELSE Reach(h, more)

\* The addresses of a set in ascending order.
RECURSIVE Ascending(_)
Ascending(addrs) ==
    IF addrs = {} THEN <<>>
    ELSE LET least == CHOOSE a \in addrs : \A b \in addrs : a <= b
         IN  << least >> \o Ascending(addrs \ {least})

\* The object with its references replaced as `new` says.
Remap(object, new(_)) ==
    LET Moved(value) == IF IsRef(value) THEN Ref(new(value.addr)) ELSE value
    IN  IF object.type = "list"
        THEN [type |-> "list", items |-> [i \in 1..Len(object.items) |-> Moved(object.items[i])]]
        ELSE [type |-> "dict", map |-> [k \in DOMAIN object.map |-> Moved(object.map[k])]]

\* copy.copy(x): a new outermost object that holds the values of the old.
ShallowCopy(h, root) ==
    [heap |-> Append(h, h[root]), root |-> Len(h) + 1]

\* copy.deepcopy(x): a new object for every object reachable from x, each
\* holding the copies of what the old one held.
DeepCopy(h, root) ==
    LET old == Ascending(Reach(h, {root}))
        New(addr) == Len(h) + (CHOOSE k \in 1..Len(old) : old[k] = addr)
    IN  [heap |-> h \o [k \in 1..Len(old) |-> Remap(h[old[k]], New)],
         root |-> New(root)]

\* The address of the object that x[k1]...[kn-1] is, for the path k1..kn.
RECURSIVE Holder(_, _, _)
Holder(h, root, path) ==
    IF Len(path) = 1 THEN root
    ELSE Holder(h, h[root].map[Head(path)].addr, Tail(path))

\* x[k1]...[kn] = value
HeapSet(h, root, path, value) ==
    [h EXCEPT ![Holder(h, root, path)].map[path[Len(path)]] = value]

\* x[k1]...[kn] = [item]: a new list object
HeapSetList(h, root, path, item) ==
    HeapSet(Append(h, [type |-> "list", items |-> << item >>]), root, path, Ref(Len(h) + 1))

\* x[k1]...[kn].append(item)
HeapAppend(h, root, path, item) ==
    [h EXCEPT ![h[Holder(h, root, path)].map[path[Len(path)]].addr].items = Append(@, item)]

\* Scraper.__init__: self.EMPTY_MENU_SCHEMA = {...}
SchemaHeap == Store(EMPTY_MENU_SCHEMA).heap

SchemaRoot == Store(EMPTY_MENU_SCHEMA).root

\* Records get_info returns at most.
MaxRecords == 2

\* Changes the callers make to the records at most.
MaxMutations == 2

\* What is scraped for the n-th item, and what a caller writes.
ItemText(n) == PyStr(<< DIGITS[n + 1] >>)

CallerText == PyStr(<<"x">>)

\* The statements of get_info that store a scraped value: a new list under
\* a key of the record, a str under a key of the record, and a str under a
\* key of a nested mapping.
ScrapedPaths ==
    << << "Ingredients" >>, << "Name" >>, << "Fat", "Total Fat", "Amount" >>,
       << "Vitamins", "Iron", "Daily Value" >> >>

\* The record after the statements that store the values scraped for an
\* item.
RECURSIVE Scraped(_, _, _, _)
Scraped(h, root, text, i) ==
    IF i > Len(ScrapedPaths) THEN h
    ELSE Scraped(IF i = 1 THEN HeapSetList(h, root, ScrapedPaths[i], text)
                 ELSE HeapSet(h, root, ScrapedPaths[i], text),
                 root, text, i + 1)

\* The same statements on the nested value.
RECURSIVE ScrapedValue(_, _, _)
ScrapedValue(resp, text, i) ==
    IF i > Len(ScrapedPaths) THEN resp
    ELSE ScrapedValue(SetPath(resp, ScrapedPaths[i],
                              IF i = 1 THEN PyList(<< text >>) ELSE text),
                      text, i + 1)

\* get_info(soup) without a soup: the copy of the schema is returned.
GetInfoNoSoup ==
    /\ Len(records) < MaxRecords
    /\ heap' = DeepCopy(heap, SchemaRoot).heap
    /\ records' = Append(records, DeepCopy(heap, SchemaRoot).root)
    /\ expected' = Append(expected, EMPTY_MENU_SCHEMA)
    /\ UNCHANGED <<mutations, scraperVars, xmlVars, icalVars, clientVars, promptVars>>

\* get_info(soup): a copy of the schema, the scraped values stored in it,
\* return response.
GetInfoReturns ==
    /\ Len(records) < MaxRecords
    /\ \A copy \in {DeepCopy(heap, SchemaRoot)} :
          /\ heap' = Scraped(copy.heap, copy.root, ItemText(Len(records) + 1), 1)
          /\ records' = Append(records, copy.root)
    /\ expected' = Append(expected,
                          ScrapedValue(EMPTY_MENU_SCHEMA, ItemText(Len(records) + 1), 1))
    /\ UNCHANGED <<mutations, scraperVars, xmlVars, icalVars, clientVars, promptVars>>

\* get_info(soup) ending in the outer handler: the record with what was
\* stored is dropped, another copy of the schema is returned.
GetInfoExcept ==
    /\ Len(records) < MaxRecords
    /\ \A copy \in {DeepCopy(heap, SchemaRoot)} :
       \A again \in {DeepCopy(Scraped(copy.heap, copy.root, ItemText(Len(records) + 1), 1),
                              SchemaRoot)} :
          /\ heap' = again.heap
          /\ records' = Append(records, again.root)
    /\ expected' = Append(expected, EMPTY_MENU_SCHEMA)
    /\ UNCHANGED <<mutations, scraperVars, xmlVars, icalVars, clientVars, promptVars>>

\* A caller stores a value in a record it was given: under a key of the
\* record or of a nested mapping.
CallerAssigns ==
    /\ mutations < MaxMutations
    /\ \E r \in 1..Len(records),
          path \in { << "Calories" >>, << "Sodium", "Amount" >>,
                     << "Carbohydrates", "Sugar", "Daily Value" >> } :
          /\ heap' = HeapSet(heap, records[r], path, CallerText)
          /\ expected' = [expected EXCEPT ![r] = SetPath(@, path, CallerText)]
    /\ mutations' = mutations + 1
    /\ UNCHANGED <<records, scraperVars, xmlVars, icalVars, clientVars, promptVars>>

\* A caller appends to a list of a record it was given.
CallerAppends ==
    /\ mutations < MaxMutations
    /\ \E r \in 1..Len(records), path \in { << "Allergens" >>, << "Ingredients" >> } :
          /\ heap' = HeapAppend(heap, records[r], path, CallerText)
          /\ expected' = [expected EXCEPT ![r] =
                            SetPath(@, path, PyList(Append(GetPath(@, path).items, CallerText)))]
    /\ mutations' = mutations + 1
    /\ UNCHANGED <<records, scraperVars, xmlVars, icalVars, clientVars, promptVars>>

RecordsNext ==
    \/ GetInfoNoSoup
    \/ GetInfoReturns
    \/ GetInfoExcept
    \/ CallerAssigns
    \/ CallerAppends

InitRecords ==
    /\ heap = SchemaHeap
    /\ records = <<>>
    /\ expected = <<>>
    /\ mutations = 0
    /\ IdleScraper
    /\ IdleXml
    /\ IdleIcal
    /\ IdleClient
    /\ IdlePrompt

SpecRecords == InitRecords /\ [][RecordsNext]_vars

---------------------------------------------------------------------------
(* Properties of the records of get_info.                                  *)

\* The objects a record is made of.
ObjectsOf(root) == Reach(heap, {root})

\* C26: whatever get_info calls were made and whatever the callers did to the
\* records, EMPTY_MENU_SCHEMA is the schema of empty leaves, no object (no
\* mapping, no list) belongs to two records or to a record and the schema,
\* and each record holds the values of its own item and its own callers
\* only.
C26_RecordsIndependent ==
    /\ Value(heap, Ref(SchemaRoot)) = EMPTY_MENU_SCHEMA
    /\ \A r \in 1..Len(records) : ObjectsOf(records[r]) \cap ObjectsOf(SchemaRoot) = {}
    /\ \A r, s \in 1..Len(records) :
          r # s => ObjectsOf(records[r]) \cap ObjectsOf(records[s]) = {}
    /\ \A r \in 1..Len(records) : Value(heap, Ref(records[r])) = expected[r]

\* Two scraped records, both changed by a caller in a nested mapping and in
\* a list.
C26_Witness ==
    /\ Len(records) = 2
    /\ mutations = 2
    /\ Value(heap, Ref(records[1]))["Sodium"]["Amount"] = CallerText
    /\ Value(heap, Ref(records[1]))["Name"] = ItemText(1)
    /\ Value(heap, Ref(records[2]))["Allergens"] = PyList(<< CallerText >>)
    /\ Value(heap, Ref(records[2]))["Fat"]["Total Fat"]["Amount"] = ItemText(2)
    /\ Value(heap, Ref(records[2]))["Sodium"]["Amount"] = PyStr(<<>>)

====
